---------------------------- MODULE Spec2Model ----------------------------
(***************************************************************************)
(* Device ingestion API of rushroster-cloud (src/src/api/ingest.py) over   *)
(* the speed_events / devices tables (src/src/database/models.py,          *)
(* src/src/database/crud.py) and the photo storage services                *)
(* (src/src/storage/object_storage.py).                                    *)
(*                                                                         *)
(* Units.  Timestamps are whole seconds, counted from the start of the      *)
(* clock's first month.  Speeds are thousandths of a mph                   *)
(* (30125 is 30.125 mph), so that the NUMERIC(5,2) column of speed_events  *)
(* has something to round.  A string built by concatenation (a storage     *)
(* key, a URL) is the sequence of its pieces.  An Optional column is the   *)
(* empty sequence (NULL) or a one-element sequence.                        *)
(*                                                                         *)
(* Scheduling.  Every handler is an "async def" without an await, run by a *)
(* single uvicorn worker (src/main.py:195), so a request runs to its end   *)
(* before the next one starts: one action per request, the dependency      *)
(* get_device_from_api_key included.  SpecSessions is the other            *)
(* deployment: main:app served by several processes on the same database,  *)
(* each request in a session and a transaction of its own, one action per  *)
(* statement.                                                              *)
(***************************************************************************)
EXTENDS Integers, Sequences, FiniteSets, TLC

VARIABLES
    speed_events,    \* rows of table speed_events (committed)
    next_event_id,   \* the next primary key uuid.uuid4 hands out
    last_sync,       \* devices.last_sync, per device
    now,             \* the server's clock, in months since the first one
    storage_provider,\* settings.storage_provider
    response,        \* the last request (op, device, arguments) and its response
    devices,         \* rows of table devices (id, is_active, owner_id)
    device_api_keys, \* rows of table device_api_keys
    sessions,        \* per server process: the request it is serving
    files,           \* keys of the objects in the photo storage
    handles,         \* photo keys of the upload handles the devices hold
    users,           \* rows of table users
    registration_codes \* rows of table registration_codes

vars == <<speed_events, next_event_id, last_sync, now, storage_provider, response,
          devices, device_api_keys, sessions, files, handles, users,
          registration_codes>>

---------------------------------------------------------------------------
(* Bounds and input domains *)

MaxEvents == 3       \* rows ever inserted into speed_events
MaxBatch == 3        \* events in one batch of the model
MaxClock == 1        \* months the clock may advance

Devices == {"devA", "devB"}

None == << >>
Some(x) == <<x>>

\* One event of a request body (ingest.py SpeedEvent).  The posted limit is
\* 30 mph; the device classifies and flags as it sees fit.
MkEvent(ts, v) ==
    [timestamp |-> ts, speed |-> v, speed_limit |-> 30000,
     is_speeding |-> v > 30000, has_photo |-> (ts = 0)]

EventInputs ==
    {MkEvent(0, 30000), MkEvent(2, 30000), MkEvent(7, 30000),
     MkEvent(10, 30000), MkEvent(0, 30125)}

SeqsUpTo(S, n) == UNION {[1..k -> S] : k \in 1..n}

\* The batches of the specification of the photo protocol.
SmallBatches == {<<MkEvent(0, 30000)>>, <<MkEvent(0, 30000), MkEvent(10, 30000)>>}

\* Query strings of GET /ingest/v1/events (100 and 0 are the defaults).
ListQueries ==
    {[limit |-> 0, offset |-> -1, speeding_only |-> FALSE],
     [limit |-> 100, offset |-> 0, speeding_only |-> TRUE],
     [limit |-> 100, offset |-> 1, speeding_only |-> FALSE]}

\* Request bodies pydantic rejects: no event, a non-positive speed, a
\* non-positive speed limit next to a well-formed event.
InvalidBatches ==
    {<< >>,
     <<[MkEvent(0, 30000) EXCEPT !.speed = 0]>>,
     <<MkEvent(0, 30000), [MkEvent(2, 30000) EXCEPT !.speed_limit = 0]>>}

---------------------------------------------------------------------------
(* Database *)

tolerance_seconds == 5
max_length == 1000

\* Column speed_events.speed, NUMERIC(5,2) on PostgreSQL (the database of
\* settings.db_url): a value is rounded to two decimals when it is stored.
Numeric_5_2(v) == ((v + 5) \div 10) * 10

\* Mutant: the time window is dropped, only an equal timestamp matches.
check_duplicate_event_exact(db, device_id, timestamp, speed) ==
    \E e \in db :
        /\ e.device_id = device_id
        /\ e.timestamp = timestamp
        /\ e.speed = speed

\* Mutant: the upper end of the time window is exclusive.
check_duplicate_event_open(db, device_id, timestamp, speed) ==
    \E e \in db :
        /\ e.device_id = device_id
        /\ e.timestamp >= timestamp - 5
        /\ e.timestamp < timestamp + 5
        /\ e.speed = speed

\* Mutant: the query forgets the device.
check_duplicate_event_anydevice(db, device_id, timestamp, speed) ==
    \E e \in db :
        /\ e.timestamp >= timestamp - 5
        /\ e.timestamp <= timestamp + 5
        /\ e.speed = speed

\* crud.check_duplicate_event: db is the set of rows the session sees.
check_duplicate_event(db, device_id, timestamp, speed) ==
    LET time_window_start == timestamp - tolerance_seconds
        time_window_end == timestamp + tolerance_seconds
    IN  \E e \in db :
            /\ e.device_id = device_id
            /\ e.timestamp >= time_window_start
            /\ e.timestamp <= time_window_end
            /\ e.speed = speed

\* SpeedEventModel(**event_data); db.add; db.flush: the row as stored.
\* Mutant: the row of an event that comes with a photo is created with a
\* placeholder photo reference.
NewRowPhoto(id, device_id, ev) ==
    [id |-> id, device_id |-> device_id, timestamp |-> ev.timestamp,
     speed |-> Numeric_5_2(ev.speed),
     speed_limit |-> Numeric_5_2(ev.speed_limit),
     is_speeding |-> ev.is_speeding,
     photo_url |-> IF ev.has_photo THEN Some(<<"pending">>) ELSE None]

NewRow(id, device_id, ev) ==
    [id |-> id, device_id |-> device_id, timestamp |-> ev.timestamp,
     speed |-> Numeric_5_2(ev.speed),
     speed_limit |-> Numeric_5_2(ev.speed_limit),
     is_speeding |-> ev.is_speeding, photo_url |-> None]

\* Mutant: a duplicate is skipped without being counted.
ProcessEventUncounted(device, ev, acc) ==
    IF check_duplicate_event(acc.db, device, ev.timestamp, ev.speed)
    THEN acc
    ELSE [db |-> acc.db \cup {NewRow(acc.next_id, device, ev)},
          next_id |-> acc.next_id + 1,
          created_count |-> acc.created_count + 1,
          skipped_count |-> acc.skipped_count,
          created_events |-> Append(acc.created_events,
              [event_id |-> acc.next_id,
               timestamp |-> ev.timestamp,
               speed |-> ev.speed,
               has_photo |-> ev.has_photo])]

\* Mutant: the summary of a created event is put in front of the list.
ProcessEventPrepend(device, ev, acc) ==
    IF check_duplicate_event(acc.db, device, ev.timestamp, ev.speed)
    THEN [acc EXCEPT !.skipped_count = @ + 1]
    ELSE [db |-> acc.db \cup {NewRow(acc.next_id, device, ev)},
          next_id |-> acc.next_id + 1,
          created_count |-> acc.created_count + 1,
          skipped_count |-> acc.skipped_count,
          created_events |-> <<[event_id |-> acc.next_id,
                                timestamp |-> ev.timestamp,
                                speed |-> ev.speed,
                                has_photo |-> ev.has_photo]>>
                             \o acc.created_events]

\* One iteration of the loop of upload_events, on event ev.  acc.db holds
\* the rows the session sees: the committed rows and the rows this call
\* has flushed.
ProcessEvent(device, ev, acc) ==
    IF check_duplicate_event(acc.db, device, ev.timestamp, ev.speed)
    THEN [acc EXCEPT !.skipped_count = @ + 1]
    ELSE [db |-> acc.db \cup {NewRow(acc.next_id, device, ev)},
          next_id |-> acc.next_id + 1,
          created_count |-> acc.created_count + 1,
          skipped_count |-> acc.skipped_count,
          created_events |-> Append(acc.created_events,
              [event_id |-> acc.next_id,
               timestamp |-> ev.timestamp,
               speed |-> ev.speed,
               has_photo |-> ev.has_photo])]

\* The iterations of the loop on events[lo..hi], in input order.  The range
\* is halved so that a batch of 1000 events nests ten deep, and the test on
\* the counter of the first half (never negative) has the first half
\* evaluated before the second.
RECURSIVE ProcessEvents(_, _, _, _, _)
ProcessEvents(device, events, lo, hi, acc) ==
    IF lo > hi THEN acc
    ELSE IF lo = hi THEN ProcessEvent(device, events[lo], acc)
    ELSE LET mid == (lo + hi) \div 2
             first == ProcessEvents(device, events, lo, mid, acc)
         IN  IF first.created_count >= 0
             THEN ProcessEvents(device, events, mid + 1, hi, first)
             ELSE first

\* Mutant: no db.flush() in the loop, so that every event of the batch is
\* checked against the committed rows only.
RECURSIVE ProcessEventsNoFlush(_, _, _, _, _)
ProcessEventsNoFlush(committed, device, events, i, acc) ==
    IF i > Len(events) THEN acc
    ELSE IF check_duplicate_event(committed, device, events[i].timestamp,
                                  events[i].speed)
    THEN ProcessEventsNoFlush(committed, device, events, i + 1,
                              [acc EXCEPT !.skipped_count = @ + 1])
    ELSE ProcessEventsNoFlush(committed, device, events, i + 1,
            [db |-> acc.db \cup {NewRow(acc.next_id, device, events[i])},
             next_id |-> acc.next_id + 1,
             created_count |-> acc.created_count + 1,
             skipped_count |-> acc.skipped_count,
             created_events |-> Append(acc.created_events,
                 [event_id |-> acc.next_id,
                  timestamp |-> events[i].timestamp,
                  speed |-> events[i].speed,
                  has_photo |-> events[i].has_photo])])

RunBatchNoFlush(db, next_id, device, events) ==
    ProcessEventsNoFlush(db, device, events, 1,
                  [db |-> db, next_id |-> next_id, created_count |-> 0,
                   skipped_count |-> 0, created_events |-> << >>])

\* The whole loop of upload_events on the rows db.
RunBatch(db, next_id, device, events) ==
    ProcessEvents(device, events, 1, Len(events),
                  [db |-> db, next_id |-> next_id, created_count |-> 0,
                   skipped_count |-> 0, created_events |-> << >>])

\* crud.update_device_last_sync
update_device_last_sync(device) ==
    last_sync' = [last_sync EXCEPT ![device] = Some(now)]

\* Mutant: the upper bound on the batch is exclusive.
ValidBatchExclusive(events) ==
    /\ Len(events) >= 1
    /\ Len(events) < 1000
    /\ {i \in 1..Len(events) :
           ~(events[i].speed > 0 /\ events[i].speed_limit > 0)} = {}

\* BatchEventsRequest / SpeedEvent validation (pydantic): min_length=1,
\* max_length=1000, and no event with speed or speed_limit failing gt=0.
ValidBatch(events) ==
    /\ Len(events) >= 1
    /\ Len(events) <= max_length
    /\ {i \in 1..Len(events) :
           ~(events[i].speed > 0 /\ events[i].speed_limit > 0)} = {}

---------------------------------------------------------------------------
(* Device credentials *)

\* auth_utils.generate_api_key: f"rushroster_{key_hex}".  A header value is
\* its text up to the hex part, the length of the rest, whether the rest is
\* lowercase hex only, and the rest itself.
generate_api_key(key_hex) ==
    [prefix |-> "rushroster_", len |-> 64, hex |-> TRUE, rest |-> key_hex]

\* auth_utils.verify_api_key_format
verify_api_key_format(api_key) ==
    /\ api_key.prefix = "rushroster_"
    /\ api_key.len = 64
    /\ api_key.hex

\* auth_utils.hash_api_key: the SHA-256 digest of the header value (no two
\* values of the model collide).
hash_api_key(api_key) == <<"sha256", api_key>>

\* Mutant: the query does not look at expires_at.
get_device_by_api_key_hash_noexpiry(api_key_hash) ==
    {d.id : d \in {d \in devices :
        /\ d.is_active
        /\ \E k \in device_api_keys :
              /\ k.device_id = d.id
              /\ k.api_key_hash = api_key_hash
              /\ k.is_active}}

\* crud.get_device_by_api_key_hash: the devices the join selects.
get_device_by_api_key_hash(api_key_hash) ==
    {d.id : d \in {d \in devices :
        /\ d.is_active
        /\ \E k \in device_api_keys :
              /\ k.device_id = d.id
              /\ k.api_key_hash = api_key_hash
              /\ k.is_active
              /\ (k.expires_at = None \/ k.expires_at[1] > now)}}

\* crud.update_api_key_last_used
update_api_key_last_used(api_key_hash) ==
    device_api_keys' =
        {IF k.api_key_hash = api_key_hash
         THEN [k EXCEPT !.last_used = Some(now)] ELSE k : k \in device_api_keys}

\* Dependency get_device_from_api_key, when it returns device.
get_device_from_api_key(x_api_key, device) ==
    /\ verify_api_key_format(x_api_key)
    /\ device \in get_device_by_api_key_hash(hash_api_key(x_api_key))
    /\ update_api_key_last_used(hash_api_key(x_api_key))

\* Dependency get_device_from_api_key, when it raises HTTPException: the
\* handler of the route is not called.
get_device_from_api_key_401(route, x_api_key) ==
    /\ \/ ~verify_api_key_format(x_api_key)
       \/ get_device_by_api_key_hash(hash_api_key(x_api_key)) = {}
    /\ response' = [op |-> "get_device_from_api_key", route |-> route,
                    x_api_key |-> x_api_key, status_code |-> 401,
                    detail |-> IF ~verify_api_key_format(x_api_key)
                               THEN "Invalid API key format"
                               ELSE "Invalid or expired API key"]
    /\ UNCHANGED <<speed_events, next_event_id, last_sync, now, storage_provider,
                   devices, device_api_keys, sessions,
                   files, handles, users, registration_codes>>

\* Dependency get_device_from_api_key, when the db.commit() of
\* update_api_key_last_used raises: nothing catches the exception, the
\* handler of the route is not called, the session is closed without a
\* commit and the server answers 500.
get_device_from_api_key_500(route, x_api_key) ==
    /\ verify_api_key_format(x_api_key)
    /\ get_device_by_api_key_hash(hash_api_key(x_api_key)) # {}
    /\ response' = [op |-> "get_device_from_api_key", route |-> route,
                    x_api_key |-> x_api_key, status_code |-> 500,
                    detail |-> "Internal Server Error"]
    /\ UNCHANGED <<speed_events, next_event_id, last_sync, now, storage_provider,
                   devices, device_api_keys, sessions,
                   files, handles, users, registration_codes>>

\* crud.create_device_api_key (api_key_hash is UNIQUE, device_id a foreign
\* key: the INSERT of a second row of the hash, or for a missing device,
\* fails).
create_device_api_key(device_id, api_key_hash, expires_at) ==
    /\ \E d \in devices : d.id = device_id
    /\ ~\E k \in device_api_keys : k.api_key_hash = api_key_hash
    /\ device_api_keys' = device_api_keys \cup
          {[device_id |-> device_id, api_key_hash |-> api_key_hash,
            is_active |-> TRUE, last_used |-> None, expires_at |-> expires_at]}
    /\ UNCHANGED <<speed_events, next_event_id, last_sync, now, storage_provider,
                   response, devices, sessions,
                   files, handles, users, registration_codes>>

\* crud.deactivate_device_api_key (the row is named by its hash here).
deactivate_device_api_key(api_key_hash) ==
    /\ \E k \in device_api_keys : k.api_key_hash = api_key_hash /\ k.is_active
    /\ device_api_keys' =
          {IF k.api_key_hash = api_key_hash
           THEN [k EXCEPT !.is_active = FALSE] ELSE k : k \in device_api_keys}
    /\ UNCHANGED <<speed_events, next_event_id, last_sync, now, storage_provider,
                   response, devices, sessions,
                   files, handles, users, registration_codes>>

\* crud.update_device(db, device_id, is_active=...)
update_device(device_id, is_active) ==
    /\ \E d \in devices : d.id = device_id /\ d.is_active # is_active
    /\ devices' = {IF d.id = device_id
                   THEN [d EXCEPT !.is_active = is_active] ELSE d : d \in devices}
    /\ UNCHANGED <<speed_events, next_event_id, last_sync, now, storage_provider,
                   response, device_api_keys, sessions,
                   files, handles, users, registration_codes>>

\* Mutant: the deletion leaves the device's credentials in their table.
delete_device_keepkeys(device_id) ==
    IF \E d \in devices : d.id = device_id
    THEN /\ speed_events' = {e \in speed_events : e.device_id # device_id}
         /\ devices' = {d \in devices : d.id # device_id}
         /\ last_sync' = [last_sync EXCEPT ![device_id] = None]
         /\ response' = [op |-> "delete_device", device |-> device_id,
                         status_code |-> 204]
         /\ UNCHANGED <<next_event_id, now, storage_provider, sessions,
                        device_api_keys, files, handles, users,
                        registration_codes>>
    ELSE /\ response' = [op |-> "delete_device", device |-> device_id,
                         status_code |-> 404, detail |-> "Device not found"]
         /\ UNCHANGED <<speed_events, next_event_id, last_sync, now,
                        storage_provider, devices, device_api_keys, sessions,
                        files, handles, users, registration_codes>>

\* DELETE /admin/devices/{device_id}: crud.delete_device deletes the
\* device's events, its credentials and the device.
delete_device(device_id) ==
    IF \E d \in devices : d.id = device_id
    THEN /\ speed_events' = {e \in speed_events : e.device_id # device_id}
         /\ device_api_keys' = {k \in device_api_keys : k.device_id # device_id}
         /\ devices' = {d \in devices : d.id # device_id}
         /\ last_sync' = [last_sync EXCEPT ![device_id] = None]
         /\ response' = [op |-> "delete_device", device |-> device_id,
                         status_code |-> 204]
         /\ UNCHANGED <<next_event_id, now, storage_provider, sessions,
                        files, handles, users, registration_codes>>
    ELSE /\ response' = [op |-> "delete_device", device |-> device_id,
                         status_code |-> 404, detail |-> "Device not found"]
         /\ UNCHANGED <<speed_events, next_event_id, last_sync, now,
                        storage_provider, devices, device_api_keys, sessions,
                        files, handles, users, registration_codes>>

---------------------------------------------------------------------------
(* Handlers *)

\* Mutant: the last-sync update sits under "if created_count > 0".
upload_events_sync_if_created(device, events) ==
    LET r == RunBatch(speed_events, next_event_id, device, events) IN
    /\ ValidBatch(events)
    /\ r.next_id <= MaxEvents + 1
    /\ speed_events' = r.db
    /\ next_event_id' = r.next_id
    /\ last_sync' = IF r.created_count > 0
                    THEN [last_sync EXCEPT ![device] = Some(now)]
                    ELSE last_sync
    /\ response' = [op |-> "upload_events", device |-> device,
                    events |-> events,
                    status_code |-> 200, status |-> "success",
                    processed |-> r.created_count,
                    duplicates_skipped |-> r.skipped_count,
                    created_events |-> r.created_events]
    /\ UNCHANGED <<now, storage_provider, devices, sessions,
                   files, handles, users, registration_codes>>

\* POST /ingest/v1/events with a well-formed body.
upload_events(device, events) ==
    LET r == RunBatch(speed_events, next_event_id, device, events) IN
    /\ ValidBatch(events)
    /\ r.next_id <= MaxEvents + 1   \* primary keys left
    /\ speed_events' = r.db
    /\ next_event_id' = r.next_id
    /\ update_device_last_sync(device)
    /\ response' = [op |-> "upload_events", device |-> device,
                    events |-> events,
                    status_code |-> 200, status |-> "success",
                    processed |-> r.created_count,
                    duplicates_skipped |-> r.skipped_count,
                    created_events |-> r.created_events]
    /\ UNCHANGED <<now, storage_provider, devices, sessions,
                   files, handles, users, registration_codes>>

\* Mutant: a malformed event is skipped and the well-formed events of the
\* batch are stored.
upload_events_rejected_partial(device, events) ==
    /\ ~ValidBatch(events)
    /\ Len(events) <= max_length
    /\ speed_events' = speed_events \cup
          {NewRow(next_event_id + i - 1, device, events[i]) :
              i \in {j \in 1..Len(events) :
                        events[j].speed > 0 /\ events[j].speed_limit > 0}}
    /\ next_event_id' = next_event_id + Len(events)
    /\ response' = [op |-> "upload_events", device |-> device,
                    events |-> events, status_code |-> 422]
    /\ UNCHANGED <<last_sync, now, storage_provider, devices, sessions,
                   files, handles, users, registration_codes>>

\* POST /ingest/v1/events with a body pydantic rejects: the handler never runs.
upload_events_rejected(device, events) ==
    /\ ~ValidBatch(events)
    /\ response' = [op |-> "upload_events", device |-> device,
                    events |-> events, status_code |-> 422]
    /\ UNCHANGED <<speed_events, next_event_id, last_sync, now, storage_provider,
                    devices, sessions,
                   files, handles, users, registration_codes>>

\* Mutant: the UPDATE of last_sync has no WHERE on the device.
device_heartbeat_all(device) ==
    /\ last_sync' = [d \in Devices |-> Some(now)]
    /\ response' = [op |-> "device_heartbeat", device |-> device,
                    status_code |-> 200, status |-> "success"]
    /\ UNCHANGED <<speed_events, next_event_id, now, storage_provider,
                    devices, sessions,
                   files, handles, users, registration_codes>>

\* POST /ingest/v1/heartbeat
device_heartbeat(device) ==
    /\ update_device_last_sync(device)
    /\ response' = [op |-> "device_heartbeat", device |-> device,
                    status_code |-> 200, status |-> "success"]
    /\ UNCHANGED <<speed_events, next_event_id, now, storage_provider,
                    devices, sessions,
                   files, handles, users, registration_codes>>

---------------------------------------------------------------------------
(* Storage services *)

\* The clock starts in December 2025: now = 0 is 2025-12, now = 1 is 2026-01.
Year(t) == 2025 + ((11 + t) \div 12)
Month(t) == ((11 + t) % 12) + 1

\* Mutant: the key is built from the date of the event's observation (the
\* clock's first month) instead of the date of issuance.
generate_photo_key_eventdate(device_id, event_id, extension) ==
    <<"photos", device_id, Year(0), Month(0), event_id, extension>>

\* ObjectStorageService.generate_photo_key and
\* LocalStorageService.generate_photo_key (the same code):
\* f"photos/{device_id}/{now.year}/{now.month:02d}/{event_id}.{extension}"
generate_photo_key(device_id, event_id, extension) ==
    <<"photos", device_id, Year(now), Month(now), event_id, extension>>

\* ObjectStorageService.get_storage_url (bucket rushroster-photos, region
\* us-east-1, no AZURE_STORAGE_ACCOUNT in the environment).
ObjectStorageService_get_storage_url(provider, key) ==
    CASE provider = "s3" ->
            <<"https://rushroster-photos.s3.us-east-1.amazonaws.com/">> \o key
      [] provider = "gcs" ->
            <<"https://storage.googleapis.com/rushroster-photos/">> \o key
      [] provider = "azure" ->
            <<"https://.blob.core.windows.net/rushroster-photos/">> \o key
      [] OTHER -> <<"https://rushroster-photos/">> \o key

\* LocalStorageService.get_storage_url
LocalStorageService_get_storage_url(key) == <<"/api/storage/files/">> \o key

\* ObjectStorageService.generate_presigned_upload_url: the signed PUT URL
\* of the key.
ObjectStorageService_generate_presigned_upload_url(key) ==
    <<"https://rushroster-photos.s3.amazonaws.com/">> \o key \o <<"?X-Amz-Signature">>

\* LocalStorageService.generate_presigned_upload_url
LocalStorageService_generate_presigned_upload_url(key) ==
    <<"/api/storage/upload/">> \o key

\* get_storage_service().get_storage_url(key)
get_storage_url(key) ==
    IF storage_provider = "local"
    THEN LocalStorageService_get_storage_url(key)
    ELSE ObjectStorageService_get_storage_url(storage_provider, key)

\* get_storage_service().generate_presigned_upload_url(key, 3600,
\* "image/jpeg"), and for local storage the base URL of the request put
\* before the relative URL.
upload_url_for(key) ==
    IF storage_provider = "local"
    THEN <<"http://testserver">> \o LocalStorageService_generate_presigned_upload_url(key)
    ELSE ObjectStorageService_generate_presigned_upload_url(key)

---------------------------------------------------------------------------
(* Photo handlers *)

\* db.get(SpeedEventModel, event_id): the rows with that primary key.
GetEvent(event_id) == {e \in speed_events : e.id = event_id}

\* Mutant: the "if not event" test is left out.
EventMissingNever(event_id) == FALSE

\* "if not event"
EventMissing(event_id) == GetEvent(event_id) = {}

\* Mutant: the ownership test is left out.
NotOwnerNever(device, event_id) == FALSE

\* "if event.device_id != device.id"
NotOwner(device, event_id) ==
    \E e \in GetEvent(event_id) : e.device_id # device

\* Mutant: a photo reference already set is kept (first write wins).
SetPhotoUrlKeepFirst(rows, event_id, photo_url) ==
    {IF e.id = event_id /\ e.photo_url = None
     THEN [e EXCEPT !.photo_url = Some(photo_url)] ELSE e : e \in rows}

\* Mutant: an empty key clears the photo reference.
SetPhotoUrlClearEmpty(rows, event_id, photo_url) ==
    {IF e.id = event_id
     THEN [e EXCEPT !.photo_url =
              IF Len(photo_url) = 1 THEN None ELSE Some(photo_url)]
     ELSE e : e \in rows}

\* "event.photo_url = photo_url; db.commit()"
SetPhotoUrl(rows, event_id, photo_url) ==
    {IF e.id = event_id
     THEN [e EXCEPT !.photo_url = Some(photo_url)] ELSE e : e \in rows}

\* POST /ingest/v1/events/{event_id}/photo/url
request_photo_upload_url(device, event_id) ==
    /\ response' =
         IF EventMissing(event_id)
         THEN [op |-> "request_photo_upload_url", device |-> device,
               event_id |-> event_id, status_code |-> 404,
               detail |-> "Event not found"]
         ELSE IF NotOwner(device, event_id)
         THEN [op |-> "request_photo_upload_url", device |-> device,
               event_id |-> event_id, status_code |-> 403,
               detail |-> "Event does not belong to this device"]
         ELSE LET photo_key == generate_photo_key(device, event_id, "jpg") IN
              [op |-> "request_photo_upload_url", device |-> device,
               event_id |-> event_id, status_code |-> 200,
               upload_url |-> upload_url_for(photo_key),
               photo_key |-> photo_key, expires_in |-> 3600]
    /\ UNCHANGED <<speed_events, next_event_id, last_sync, now, storage_provider,
                    devices, sessions,
                   files, users, registration_codes>>

\* Mutant: the confirmation asks the storage service whether the object
\* exists (file_exists).
confirm_photo_upload_exists(device, event_id, photo_key) ==
    IF EventMissing(event_id)
    THEN /\ response' = [op |-> "confirm_photo_upload", device |-> device,
                         event_id |-> event_id, photo_key |-> photo_key,
                         status_code |-> 404, detail |-> "Event not found"]
         /\ UNCHANGED <<speed_events, next_event_id, last_sync, now, storage_provider,
                    devices, sessions, files, handles, users, registration_codes>>
    ELSE IF NotOwner(device, event_id)
    THEN /\ response' = [op |-> "confirm_photo_upload", device |-> device,
                         event_id |-> event_id, photo_key |-> photo_key,
                         status_code |-> 403,
                         detail |-> "Event does not belong to this device"]
         /\ UNCHANGED <<speed_events, next_event_id, last_sync, now, storage_provider,
                    devices, sessions, files, handles, users, registration_codes>>
    ELSE IF photo_key \notin files
    THEN /\ response' = [op |-> "confirm_photo_upload", device |-> device,
                         event_id |-> event_id, photo_key |-> photo_key,
                         status_code |-> 400, detail |-> "Invalid photo key"]
         /\ UNCHANGED <<speed_events, next_event_id, last_sync, now, storage_provider,
                    devices, sessions, files, handles, users, registration_codes>>
    ELSE LET photo_url == get_storage_url(photo_key) IN
         /\ speed_events' = SetPhotoUrl(speed_events, event_id, photo_url)
         /\ response' = [op |-> "confirm_photo_upload", device |-> device,
                         event_id |-> event_id, photo_key |-> photo_key,
                         status_code |-> 200, status |-> "success",
                         photo_url |-> photo_url]
         /\ UNCHANGED <<next_event_id, last_sync, now, storage_provider,
                         devices, sessions, files, handles, users,
                         registration_codes>>

\* Mutant: the confirmation accepts only the key the handle request
\* builds for the caller and the event.
confirm_photo_upload_ownkey(device, event_id, photo_key) ==
    IF EventMissing(event_id)
    THEN /\ response' = [op |-> "confirm_photo_upload", device |-> device,
                         event_id |-> event_id, photo_key |-> photo_key,
                         status_code |-> 404, detail |-> "Event not found"]
         /\ UNCHANGED <<speed_events, next_event_id, last_sync, now, storage_provider,
                    devices, sessions, files, handles, users, registration_codes>>
    ELSE IF NotOwner(device, event_id)
    THEN /\ response' = [op |-> "confirm_photo_upload", device |-> device,
                         event_id |-> event_id, photo_key |-> photo_key,
                         status_code |-> 403,
                         detail |-> "Event does not belong to this device"]
         /\ UNCHANGED <<speed_events, next_event_id, last_sync, now, storage_provider,
                    devices, sessions, files, handles, users, registration_codes>>
    ELSE IF photo_key # generate_photo_key(device, event_id, "jpg")
    THEN /\ response' = [op |-> "confirm_photo_upload", device |-> device,
                         event_id |-> event_id, photo_key |-> photo_key,
                         status_code |-> 400, detail |-> "Invalid photo key"]
         /\ UNCHANGED <<speed_events, next_event_id, last_sync, now, storage_provider,
                    devices, sessions, files, handles, users, registration_codes>>
    ELSE LET photo_url == get_storage_url(photo_key) IN
         /\ speed_events' = SetPhotoUrl(speed_events, event_id, photo_url)
         /\ response' = [op |-> "confirm_photo_upload", device |-> device,
                         event_id |-> event_id, photo_key |-> photo_key,
                         status_code |-> 200, status |-> "success",
                         photo_url |-> photo_url]
         /\ UNCHANGED <<next_event_id, last_sync, now, storage_provider,
                         devices, sessions, files, handles, users,
                         registration_codes>>

\* POST /ingest/v1/events/{event_id}/photo/confirm?photo_key=...
confirm_photo_upload(device, event_id, photo_key) ==
    IF EventMissing(event_id)
    THEN /\ response' = [op |-> "confirm_photo_upload", device |-> device,
                         event_id |-> event_id, photo_key |-> photo_key,
                         status_code |-> 404, detail |-> "Event not found"]
         /\ UNCHANGED <<speed_events, next_event_id, last_sync, now, storage_provider,
                    devices, sessions,
                        files, handles, users, registration_codes>>
    ELSE IF NotOwner(device, event_id)
    THEN /\ response' = [op |-> "confirm_photo_upload", device |-> device,
                         event_id |-> event_id, photo_key |-> photo_key,
                         status_code |-> 403,
                         detail |-> "Event does not belong to this device"]
         /\ UNCHANGED <<speed_events, next_event_id, last_sync, now, storage_provider,
                    devices, sessions,
                        files, handles, users, registration_codes>>
    ELSE LET photo_url == get_storage_url(photo_key) IN
         /\ speed_events' = SetPhotoUrl(speed_events, event_id, photo_url)
         /\ response' = [op |-> "confirm_photo_upload", device |-> device,
                         event_id |-> event_id, photo_key |-> photo_key,
                         status_code |-> 200, status |-> "success",
                         photo_url |-> photo_url]
         /\ UNCHANGED <<next_event_id, last_sync, now, storage_provider,
                         devices, sessions,
                        files, handles, users, registration_codes>>

---------------------------------------------------------------------------
(* Photo storage *)

\* The device keeps the handle a 200 answer of request_photo_upload_url
\* carries.
handle_kept ==
    handles' = IF response'.status_code = 200
               THEN handles \cup {response'.photo_key} ELSE handles

\* PUT /api/storage/upload/{key:path} (src/src/api/storage.py): local
\* storage only; no credential is asked for.
upload_file(key) ==
    IF storage_provider # "local"
    THEN /\ response' = [op |-> "upload_file", key |-> key, status_code |-> 501,
                         detail |-> "Local storage endpoints are only available when storage_provider is 'local'"]
         /\ UNCHANGED <<speed_events, next_event_id, last_sync, now,
                        storage_provider, devices, device_api_keys, sessions,
                        files, handles, users, registration_codes>>
    ELSE /\ files' = files \cup {key}
         /\ response' = [op |-> "upload_file", key |-> key, status_code |-> 200,
                         status |-> "success",
                         url |-> LocalStorageService_get_storage_url(key)]
         /\ UNCHANGED <<speed_events, next_event_id, last_sync, now,
                        storage_provider, devices, device_api_keys, sessions,
                        handles, users, registration_codes>>

\* PUT on a pre-signed URL of the object store: the store accepts the
\* object under the key the URL was signed for.
put_object(key) ==
    /\ storage_provider # "local"
    /\ key \in handles
    /\ files' = files \cup {key}
    /\ UNCHANGED <<speed_events, next_event_id, last_sync, now, storage_provider,
                   response, devices, device_api_keys, sessions, handles, users,
                   registration_codes>>

---------------------------------------------------------------------------
(* Event listing *)

\* The orders in which the database may return the rows of S for
\* ORDER BY timestamp DESC: a row of the greatest timestamp comes first (any
\* of them, when several rows share it), then the others likewise.
RECURSIVE OrderByTimestampDesc(_)
OrderByTimestampDesc(S) ==
    IF S = {} THEN {<< >>}
    ELSE UNION {{<<e>> \o t : t \in OrderByTimestampDesc(S \ {e})} :
                  e \in {x \in S : \A y \in S : y.timestamp <= x.timestamp}}

\* .offset(offset).limit(limit)
OffsetLimit(s, offset, limit) ==
    SubSeq(s, offset + 1,
           IF offset + limit < Len(s) THEN offset + limit ELSE Len(s))

\* crud.get_device_events(db, device_id, limit, offset, speeding_only)
crud_get_device_events(device_id, limit, offset, speeding_only) ==
    LET rows == {e \in speed_events :
                    /\ e.device_id = device_id
                    /\ (speeding_only => e.is_speeding)}
    IN  {OffsetLimit(s, offset, limit) : s \in OrderByTimestampDesc(rows)}

\* One item of the "events" list of the response.
EventItem(e) ==
    [id |-> e.id, timestamp |-> e.timestamp, speed |-> e.speed,
     speed_limit |-> e.speed_limit, is_speeding |-> e.is_speeding,
     photo_url |-> e.photo_url]

\* GET /ingest/v1/events
get_device_events(device, limit, offset, speeding_only) ==
    LET lim == IF limit < 1 THEN 1 ELSE limit
        off == IF offset < 0 THEN 0 ELSE offset
    IN  /\ \E events \in crud_get_device_events(device, lim, off, speeding_only) :
              response' = [op |-> "get_device_events", device |-> device,
                           status_code |-> 200, count |-> Len(events),
                           limit |-> lim, offset |-> off,
                           speeding_only |-> speeding_only,
                           events |-> [i \in 1..Len(events) |->
                                          EventItem(events[i])]]
        /\ UNCHANGED <<speed_events, next_event_id, last_sync, now, storage_provider,
                    devices, sessions,
                       files, handles, users, registration_codes>>

\* Time passes: the server's clock reaches the next month.
Tick ==
    /\ now < MaxClock
    /\ now' = now + 1
    /\ UNCHANGED <<speed_events, next_event_id, last_sync, storage_provider,
                   response, devices, device_api_keys, sessions,
                   files, handles, users, registration_codes>>

---------------------------------------------------------------------------
(* upload_events, statement by statement, in the session of a server process *)

\* The server processes.
Workers == {"w1", "w2"}

\* A server process between two requests.
Idle == [pc |-> "idle"]

\* The rows the statements of w's session see (READ COMMITTED): the
\* committed rows and the rows the session itself has flushed.
SessionView(w) == speed_events \cup sessions[w].pending

\* The request reaches process w: get_db opens a session, the dependency
\* authenticates the device (and commits the credential's last-used time),
\* the handler starts.
begin_upload_events(w, device, events) ==
    /\ sessions[w].pc = "idle"
    /\ ValidBatch(events)
    /\ sessions' = [sessions EXCEPT ![w] =
          [pc |-> "loop", device |-> device, events |-> events, i |-> 1,
           pending |-> {}, created_count |-> 0, skipped_count |-> 0,
           created_events |-> << >>]]
    /\ UNCHANGED <<speed_events, next_event_id, last_sync, now, storage_provider,
                   response, devices,
                   files, handles, users, registration_codes>>

\* Mutant: the loop commits each event instead of flushing it.
loop_iteration_commit(w) ==
    LET ses == sessions[w]
        r == ProcessEvent(ses.device, ses.events[ses.i],
                 [db |-> SessionView(w), next_id |-> next_event_id,
                  created_count |-> ses.created_count,
                  skipped_count |-> ses.skipped_count,
                  created_events |-> ses.created_events])
    IN  /\ ses.pc = "loop"
        /\ ses.i <= Len(ses.events)
        /\ r.next_id <= MaxEvents + 1
        /\ next_event_id' = r.next_id
        /\ speed_events' = r.db
        /\ sessions' = [sessions EXCEPT ![w] =
              [ses EXCEPT !.i = @ + 1,
                          !.created_count = r.created_count,
                          !.skipped_count = r.skipped_count,
                          !.created_events = r.created_events]]
        /\ UNCHANGED <<last_sync, now, storage_provider, response, devices,
                       device_api_keys,
                       files, handles, users, registration_codes>>

\* One iteration of the loop: the duplicate query, and for a new event
\* db.add and db.flush (the row is written in the session's transaction,
\* not committed).
loop_iteration(w) ==
    LET ses == sessions[w]
        r == ProcessEvent(ses.device, ses.events[ses.i],
                 [db |-> SessionView(w), next_id |-> next_event_id,
                  created_count |-> ses.created_count,
                  skipped_count |-> ses.skipped_count,
                  created_events |-> ses.created_events])
    IN  /\ ses.pc = "loop"
        /\ ses.i <= Len(ses.events)
        /\ r.next_id <= MaxEvents + 1   \* primary keys left
        /\ next_event_id' = r.next_id
        /\ sessions' = [sessions EXCEPT ![w] =
              [ses EXCEPT !.i = @ + 1,
                          !.pending = r.db \ speed_events,
                          !.created_count = r.created_count,
                          !.skipped_count = r.skipped_count,
                          !.created_events = r.created_events]]
        /\ UNCHANGED <<speed_events, last_sync, now, storage_provider, response,
                       devices, device_api_keys,
                       files, handles, users, registration_codes>>

\* Mutant: a UNIQUE constraint on (device_id, timestamp, speed): the commit
\* leaves out the rows that match a committed row.
commit_events_unique(w) ==
    LET ses == sessions[w] IN
    /\ ses.pc = "loop"
    /\ ses.i > Len(ses.events)
    /\ speed_events' = speed_events \cup
          {p \in ses.pending :
              ~\E e \in speed_events :
                  /\ e.device_id = p.device_id
                  /\ e.timestamp = p.timestamp
                  /\ e.speed = p.speed}
    /\ sessions' = [sessions EXCEPT ![w] =
          [ses EXCEPT !.pc = "last_sync", !.pending = {}]]
    /\ UNCHANGED <<next_event_id, last_sync, now, storage_provider, response,
                   devices, device_api_keys,
                   files, handles, users, registration_codes>>

\* After the loop: "if created_count > 0: db.commit()".
commit_events(w) ==
    LET ses == sessions[w] IN
    /\ ses.pc = "loop"
    /\ ses.i > Len(ses.events)
    /\ speed_events' = speed_events \cup ses.pending
    /\ sessions' = [sessions EXCEPT ![w] =
          [ses EXCEPT !.pc = "last_sync", !.pending = {}]]
    /\ UNCHANGED <<next_event_id, last_sync, now, storage_provider, response,
                   devices, device_api_keys,
                   files, handles, users, registration_codes>>

\* crud.update_device_last_sync and the response.
finish_upload_events(w) ==
    LET ses == sessions[w] IN
    /\ ses.pc = "last_sync"
    /\ update_device_last_sync(ses.device)
    /\ response' = [op |-> "upload_events", device |-> ses.device,
                    events |-> ses.events,
                    status_code |-> 200, status |-> "success",
                    processed |-> ses.created_count,
                    duplicates_skipped |-> ses.skipped_count,
                    created_events |-> ses.created_events]
    /\ sessions' = [sessions EXCEPT ![w] = Idle]
    /\ UNCHANGED <<speed_events, next_event_id, now, storage_provider, devices,
                   device_api_keys,
                   files, handles, users, registration_codes>>

\* A statement of the handler raises (the database refuses a value, the
\* connection is lost): get_db closes the session, which rolls back what
\* it flushed and did not commit, and the server answers 500.
upload_events_raises(w) ==
    LET ses == sessions[w] IN
    /\ ses.pc \in {"loop", "last_sync"}
    /\ response' = [op |-> "upload_events", device |-> ses.device,
                    events |-> ses.events, status_code |-> 500]
    /\ sessions' = [sessions EXCEPT ![w] = Idle]
    /\ UNCHANGED <<speed_events, next_event_id, last_sync, now, storage_provider,
                   devices, device_api_keys,
                   files, handles, users, registration_codes>>

---------------------------------------------------------------------------
(* Users and registration codes *)

\* crud.get_user_by_id, crud.get_user_by_email: the rows found.
get_user_by_id(user_id) == {u \in users : u.id = user_id}
get_user_by_email(email) == {u \in users : u.email = email}

\* Mutant: the first user gets the admin status the caller asked for.
UserRowAsRequested(id, email, is_admin) ==
    [id |-> id, email |-> email, is_admin |-> is_admin]

\* The row crud.create_user adds: "if not is_admin", a count of 0 users
\* makes the user an administrator.
UserRow(id, email, is_admin) ==
    [id |-> id, email |-> email,
     is_admin |-> IF ~is_admin /\ Cardinality(users) = 0 THEN TRUE ELSE is_admin]

\* crud.create_user called directly (a script, a fixture); email is unique
\* in its table, the id is a uuid4 no row has.
create_user(id, email, is_admin) ==
    /\ get_user_by_id(id) = {}
    /\ get_user_by_email(email) = {}
    /\ users' = users \cup {UserRow(id, email, is_admin)}
    /\ response' = [op |-> "create_user", user_id |-> id, email |-> email,
                    is_admin |-> is_admin]
    /\ UNCHANGED <<speed_events, next_event_id, last_sync, now, storage_provider,
                   devices, device_api_keys, sessions, files, handles,
                   registration_codes>>

\* crud.create_registration_code called directly; code is unique in its
\* table.
create_registration_code(code, max_uses, expires_at) ==
    /\ ~\E c \in registration_codes : c.code = code
    /\ registration_codes' = registration_codes \cup
          {[code |-> code, max_uses |-> max_uses, current_uses |-> 0,
            is_active |-> TRUE, expires_at |-> expires_at]}
    /\ UNCHANGED <<speed_events, next_event_id, last_sync, now, storage_provider,
                   devices, device_api_keys, sessions, files, handles,
                   response, users>>

\* crud.deactivate_registration_code (the row is named by its code here).
deactivate_registration_code(code) ==
    /\ \E c \in registration_codes : c.code = code /\ c.is_active
    /\ registration_codes' =
          {IF c.code = code THEN [c EXCEPT !.is_active = FALSE] ELSE c :
              c \in registration_codes}
    /\ UNCHANGED <<speed_events, next_event_id, last_sync, now, storage_provider,
                   devices, device_api_keys, sessions, files, handles,
                   response, users>>

\* Mutant: a code is usable up to and including current_uses = max_uses.
UsableCodesInclusive(code) ==
    {c \in registration_codes :
        /\ c.code = code
        /\ c.is_active
        /\ c.current_uses <= c.max_uses
        /\ (c.expires_at = None \/ c.expires_at[1] > now)}

\* The rows the query of crud.validate_and_use_registration_code selects.
UsableCodes(code) ==
    {c \in registration_codes :
        /\ c.code = code
        /\ c.is_active
        /\ c.current_uses < c.max_uses
        /\ (c.expires_at = None \/ c.expires_at[1] > now)}

\* The table after "reg_code.current_uses += 1; db.commit()".
UseCode(code) ==
    {IF c \in UsableCodes(code) THEN [c EXCEPT !.current_uses = @ + 1] ELSE c :
        c \in registration_codes}

\* crud.validate_and_use_registration_code called directly.
validate_and_use_registration_code(code) ==
    /\ registration_codes' = UseCode(code)
    /\ response' = [op |-> "validate_and_use_registration_code", code |-> code,
                    result |-> UsableCodes(code) # {}]
    /\ UNCHANGED <<speed_events, next_event_id, last_sync, now, storage_provider,
                   devices, device_api_keys, sessions, files, handles,
                   users>>

\* Mutant: the registration code is used after the other checks.
register_code_last(id, email, password, confirm_password, registration_code) ==
    LET req == [op |-> "register", email |-> email, password |-> password,
                confirm_password |-> confirm_password,
                registration_code |-> registration_code]
        refuse(msg) ==
            /\ response' = req @@ [status_code |-> 400, success |-> FALSE,
                                   message |-> msg]
            /\ UNCHANGED users
    IN  /\ get_user_by_id(id) = {}
        /\ IF password # confirm_password
           THEN refuse("Passwords do not match") /\ UNCHANGED registration_codes
           ELSE IF Len(password) < 8
           THEN /\ refuse("Password must be at least 8 characters")
                /\ UNCHANGED registration_codes
           ELSE IF get_user_by_email(email) # {}
           THEN refuse("Email already registered") /\ UNCHANGED registration_codes
           ELSE IF UsableCodes(registration_code) = {}
           THEN /\ refuse("Invalid, expired, or fully-used registration code")
                /\ UNCHANGED registration_codes
           ELSE /\ registration_codes' = UseCode(registration_code)
                /\ users' = users \cup {UserRow(id, email, FALSE)}
                /\ response' = req @@ [status_code |-> 200, success |-> TRUE,
                                       message |-> "Account created successfully"]
        /\ UNCHANGED <<speed_events, next_event_id, last_sync, now, storage_provider,
                   devices, device_api_keys, sessions, files, handles>>

\* POST /auth/register (web_ui.py): the form of the registration page.  id
\* is the uuid4 of the user, if one is created.
register(id, email, password, confirm_password, registration_code) ==
    LET req == [op |-> "register", email |-> email, password |-> password,
                confirm_password |-> confirm_password,
                registration_code |-> registration_code]
        refuse(msg) ==
            /\ response' = req @@ [status_code |-> 400, success |-> FALSE,
                                   message |-> msg]
            /\ UNCHANGED users
    IN  /\ get_user_by_id(id) = {}
        /\ IF UsableCodes(registration_code) = {}
           THEN /\ refuse("Invalid, expired, or fully-used registration code")
                /\ UNCHANGED registration_codes
           ELSE /\ registration_codes' = UseCode(registration_code)
                /\ IF password # confirm_password
                   THEN refuse("Passwords do not match")
                   ELSE IF Len(password) < 8
                   THEN refuse("Password must be at least 8 characters")
                   ELSE IF get_user_by_email(email) # {}
                   THEN refuse("Email already registered")
                   ELSE /\ users' = users \cup {UserRow(id, email, FALSE)}
                        /\ response' = req @@
                              [status_code |-> 200, success |-> TRUE,
                               message |-> "Account created successfully"]
        /\ UNCHANGED <<speed_events, next_event_id, last_sync, now, storage_provider,
                   devices, device_api_keys, sessions, files, handles>>

\* POST /api/auth/register (auth.py): UserRegister asks for a password of 8
\* characters and a non-empty code before the handler runs.
register_user(id, email, password, registration_code) ==
    LET req == [op |-> "register_user", email |-> email, password |-> password,
                registration_code |-> registration_code]
    IN  /\ get_user_by_id(id) = {}
        /\ IF Len(password) < 8 \/ Len(registration_code) < 1
           THEN /\ response' = req @@ [status_code |-> 422]
                /\ UNCHANGED <<users, registration_codes>>
           ELSE IF UsableCodes(registration_code) = {}
           THEN /\ response' = req @@
                      [status_code |-> 400,
                       detail |-> "Invalid, expired, or fully-used registration code"]
                /\ UNCHANGED <<users, registration_codes>>
           ELSE /\ registration_codes' = UseCode(registration_code)
                /\ IF get_user_by_email(email) # {}
                   THEN /\ response' = req @@
                              [status_code |-> 400,
                               detail |-> "Email already registered"]
                        /\ UNCHANGED users
                   ELSE /\ users' = users \cup {UserRow(id, email, FALSE)}
                        /\ response' = req @@ [status_code |-> 201, id |-> id,
                                               is_admin |-> UserRow(id, email, FALSE).is_admin]
        /\ UNCHANGED <<speed_events, next_event_id, last_sync, now, storage_provider,
                   devices, device_api_keys, sessions, files, handles>>

\* get_admin_user (auth.py) for the bearer of a token of user admin: 0 when
\* the user is an administrator, else the status of the refusal.
get_admin_user(admin) ==
    IF get_user_by_id(admin) = {} THEN 401
    ELSE IF \E u \in get_user_by_id(admin) : ~u.is_admin THEN 403
    ELSE 0

\* require_admin (web_ui.py) for the holder of a session cookie of user
\* admin.
require_admin(admin) ==
    IF get_user_by_id(admin) = {} THEN 302
    ELSE IF \E u \in get_user_by_id(admin) : ~u.is_admin THEN 403
    ELSE 0

\* user_id's devices: crud.get_user_devices(db, user_id, include_inactive=True)
get_user_devices(user_id) == {d.id : d \in {r \in devices : r.owner_id = user_id}}

\* crud.set_user_admin_status and the rest of the state.
SetAdmin(user_id, is_admin) ==
    /\ users' = {IF u.id = user_id THEN [u EXCEPT !.is_admin = is_admin] ELSE u :
                    u \in users}
    /\ UNCHANGED <<speed_events, next_event_id, last_sync, now, storage_provider,
                   devices, device_api_keys, sessions, files, handles,
                   registration_codes>>

\* crud.delete_user: the user's devices with their events and credentials,
\* then the user.
DeleteUser(user_id) ==
    LET owned == get_user_devices(user_id) IN
    /\ speed_events' = {e \in speed_events : e.device_id \notin owned}
    /\ device_api_keys' = {k \in device_api_keys : k.device_id \notin owned}
    /\ devices' = {d \in devices : d.id \notin owned}
    /\ last_sync' = [d \in Devices |-> IF d \in owned THEN None ELSE last_sync[d]]
    /\ users' = {u \in users : u.id # user_id}
    /\ UNCHANGED <<next_event_id, now, storage_provider, sessions, files, handles,
                   registration_codes>>

\* Nothing stored changes.
NoWrite ==
    UNCHANGED <<speed_events, next_event_id, last_sync, now, storage_provider,
                devices, device_api_keys, sessions, files, handles, users,
                registration_codes>>

\* Mutant: an administrator may remove their own admin status.
set_user_admin_status_self(admin, user_id, is_admin) ==
    LET req == [op |-> "set_user_admin_status", admin |-> admin,
                user_id |-> user_id, is_admin |-> is_admin]
    IN  IF get_admin_user(admin) # 0
        THEN response' = req @@ [status_code |-> get_admin_user(admin)] /\ NoWrite
        ELSE IF get_user_by_id(user_id) = {}
        THEN /\ response' = req @@ [status_code |-> 404, detail |-> "User not found"]
             /\ NoWrite
        ELSE /\ SetAdmin(user_id, is_admin)
             /\ response' = req @@ [status_code |-> 200]

\* PATCH /api/admin/users/{user_id}/admin (admin.py)
set_user_admin_status(admin, user_id, is_admin) ==
    LET req == [op |-> "set_user_admin_status", admin |-> admin,
                user_id |-> user_id, is_admin |-> is_admin]
    IN  IF get_admin_user(admin) # 0
        THEN response' = req @@ [status_code |-> get_admin_user(admin)] /\ NoWrite
        ELSE IF user_id = admin /\ ~is_admin
        THEN /\ response' = req @@
                   [status_code |-> 400,
                    detail |-> "Cannot remove your own admin privileges"]
             /\ NoWrite
        ELSE IF get_user_by_id(user_id) = {}
        THEN /\ response' = req @@ [status_code |-> 404, detail |-> "User not found"]
             /\ NoWrite
        ELSE /\ SetAdmin(user_id, is_admin)
             /\ response' = req @@ [status_code |-> 200]

\* DELETE /api/admin/users/{user_id} (admin.py)
delete_user(admin, user_id) ==
    LET req == [op |-> "delete_user", admin |-> admin, user_id |-> user_id]
    IN  IF get_admin_user(admin) # 0
        THEN response' = req @@ [status_code |-> get_admin_user(admin)] /\ NoWrite
        ELSE IF user_id = admin
        THEN /\ response' = req @@ [status_code |-> 400,
                                    detail |-> "Cannot delete your own account"]
             /\ NoWrite
        ELSE IF get_user_by_id(user_id) = {}
        THEN /\ response' = req @@ [status_code |-> 404, detail |-> "User not found"]
             /\ NoWrite
        ELSE /\ DeleteUser(user_id)
             /\ response' = req @@ [status_code |-> 204]

\* POST /admin/users/{user_id}/admin (web_ui.py)
admin_toggle_admin_status(admin, user_id, is_admin) ==
    LET req == [op |-> "admin_toggle_admin_status", admin |-> admin,
                user_id |-> user_id, is_admin |-> is_admin]
    IN  IF require_admin(admin) # 0
        THEN response' = req @@ [status_code |-> require_admin(admin)] /\ NoWrite
        ELSE IF user_id = admin /\ ~is_admin
        THEN /\ response' = req @@
                   [status_code |-> 400, success |-> FALSE,
                    message |-> "Cannot remove your own admin privileges"]
             /\ NoWrite
        ELSE IF get_user_by_id(user_id) = {}
        THEN /\ response' = req @@ [status_code |-> 404, success |-> FALSE,
                                    message |-> "User not found"]
             /\ NoWrite
        ELSE /\ SetAdmin(user_id, is_admin)
             /\ response' = req @@ [status_code |-> 200, success |-> TRUE]

\* DELETE /admin/users/{user_id} (web_ui.py)
admin_delete_user(admin, user_id) ==
    LET req == [op |-> "admin_delete_user", admin |-> admin, user_id |-> user_id]
    IN  IF require_admin(admin) # 0
        THEN response' = req @@ [status_code |-> require_admin(admin)] /\ NoWrite
        ELSE IF user_id = admin
        THEN /\ response' = req @@
                   [status_code |-> 400, success |-> FALSE,
                    message |-> "Cannot delete your own account"]
             /\ NoWrite
        ELSE IF get_user_by_id(user_id) = {}
        THEN /\ response' = req @@ [status_code |-> 404, success |-> FALSE,
                                    message |-> "User not found"]
             /\ NoWrite
        ELSE /\ DeleteUser(user_id)
             /\ response' = req @@ [status_code |-> 200, success |-> TRUE]

---------------------------------------------------------------------------
(* Specifications *)

\* The key a device got at registration.
PrimaryKey(d) == generate_api_key(<<d, 1>>)

\* register_device for every device: the device row and its
\* "Primary API Key".
RegisteredDevices ==
    {[id |-> d, is_active |-> TRUE, owner_id |-> "u0"] : d \in Devices}

\* The devices' owner: the first account of the installation, therefore an
\* administrator.
DeviceOwner == [id |-> "u0", email |-> "owner@example.com", is_admin |-> TRUE]

PrimaryApiKeys ==
    {[device_id |-> d, api_key_hash |-> hash_api_key(PrimaryKey(d)),
      is_active |-> TRUE, last_used |-> None, expires_at |-> None] : d \in Devices}

InitIngest ==
    /\ speed_events = {}
    /\ next_event_id = 1
    /\ last_sync = [d \in Devices |-> None]
    /\ now = 0
    /\ storage_provider = "s3"
    /\ response = [op |-> "none"]
    /\ devices = RegisteredDevices
    /\ device_api_keys = PrimaryApiKeys
    /\ sessions = [w \in Workers |-> Idle]
    /\ files = {}
    /\ handles = {}
    /\ users = {DeviceOwner}
    /\ registration_codes = {}

\* The batches the primary keys left allow (the guard of upload_events,
\* applied to the choice of the batch).
BatchesInReach ==
    SeqsUpTo(EventInputs,
             IF MaxEvents + 1 - next_event_id < MaxBatch
             THEN MaxEvents + 1 - next_event_id ELSE MaxBatch)

NextIngest ==
    \/ \E d \in Devices :
          /\ get_device_from_api_key(PrimaryKey(d), d)
          /\ \E b \in BatchesInReach : upload_events(d, b)
    \/ \E d \in Devices :
          /\ get_device_from_api_key(PrimaryKey(d), d)
          /\ \E b \in InvalidBatches : upload_events_rejected(d, b)
    \/ \E d \in Devices :
          get_device_from_api_key(PrimaryKey(d), d) /\ device_heartbeat(d)
    \/ \E d \in Devices :
          /\ get_device_from_api_key(PrimaryKey(d), d)
          /\ \E q \in ListQueries :
                get_device_events(d, q.limit, q.offset, q.speeding_only)

SpecIngest == InitIngest /\ [][NextIngest]_vars

\* Request validation: batches at the bounds of the request model (one
\* event, 1000 events, no event, 1001 events) and batches with a malformed
\* event.
Repeat(e, n) == [i \in 1..n |-> e]

BoundaryEvents == {MkEvent(0, 30000), MkEvent(10, 30000)}

BoundaryBatches ==
    {Repeat(e, 1) : e \in BoundaryEvents} \cup {Repeat(MkEvent(0, 30000), 1000)}

OversizeBatches == {Repeat(MkEvent(0, 30000), 1001)}

ValidationBatches == BoundaryBatches \cup OversizeBatches \cup InvalidBatches

NextValidation ==
    \/ \E d \in Devices, b \in ValidationBatches :
          get_device_from_api_key(PrimaryKey(d), d) /\ upload_events(d, b)
    \/ \E d \in Devices, b \in ValidationBatches :
          get_device_from_api_key(PrimaryKey(d), d) /\ upload_events_rejected(d, b)

SpecValidation == InitIngest /\ [][NextValidation]_vars

\* Credentials over time: devices send requests under every header value
\* while credentials are added, deactivated and expire, devices are
\* deactivated and deleted, and the clock advances.
AuthBatches == {<<MkEvent(0, 30000)>>}

SecondKey == generate_api_key(<<"devA", 2>>)

\* Header values: the devices' primary keys, a second key of devA, a
\* well-formed key no row holds, and a malformed value.
AuthKeys ==
    {PrimaryKey(d) : d \in Devices}
    \cup {SecondKey, generate_api_key(<<"nobody", 1>>),
          [prefix |-> "invalid_key", len |-> 0, hex |-> TRUE, rest |-> << >>]}

NextAuth ==
    \/ \E k \in AuthKeys, d \in Devices, b \in AuthBatches :
          get_device_from_api_key(k, d) /\ upload_events(d, b)
    \/ \E k \in AuthKeys, d \in Devices :
          get_device_from_api_key(k, d) /\ device_heartbeat(d)
    \/ \E k \in AuthKeys, d \in Devices :
          /\ get_device_from_api_key(k, d)
          /\ confirm_photo_upload(d, 1, generate_photo_key(d, 1, "jpg"))
    \/ \E k \in AuthKeys : get_device_from_api_key_401("device_heartbeat", k)
    \/ \E k \in AuthKeys : get_device_from_api_key_500("device_heartbeat", k)
    \/ \E e \in {None, Some(1)} :
          create_device_api_key("devA", hash_api_key(SecondKey), e)
    \/ \E k \in {PrimaryKey("devA"), SecondKey} :
          deactivate_device_api_key(hash_api_key(k))
    \/ update_device("devA", FALSE)
    \/ delete_device("devB")
    \/ Tick

SpecAuth == InitIngest /\ [][NextAuth]_vars

\* Several server processes on one database: the ingestion calls of one
\* device run statement by statement, each in its session, next to the
\* device's event listings.
NextSessions ==
    \/ \E w \in Workers :
          /\ get_device_from_api_key(PrimaryKey("devA"), "devA")
          /\ \E b \in SmallBatches : begin_upload_events(w, "devA", b)
    \/ \E w \in Workers : loop_iteration(w)
    \/ \E w \in Workers : commit_events(w)
    \/ \E w \in Workers : finish_upload_events(w)
    \/ \E w \in Workers : upload_events_raises(w)
    \/ /\ get_device_from_api_key(PrimaryKey("devA"), "devA")
       /\ get_device_events("devA", 100, 0, FALSE)

SpecSessions == InitIngest /\ [][NextSessions]_vars

\* Event ids a request path may name: every id ever handed out, and one more.
EventIds == 1..next_event_id

\* Keys a device may confirm with: the key issued to it for the event this
\* month, the key under the other devices' prefixes, and the empty string.
KeyInputs(event_id) ==
    {generate_photo_key(d, event_id, "jpg") : d \in Devices} \cup {<< >>}

StorageProviders == {"local", "s3"}

Init ==
    /\ speed_events = {}
    /\ next_event_id = 1
    /\ last_sync = [d \in Devices |-> None]
    /\ now = 0
    /\ storage_provider \in StorageProviders
    /\ response = [op |-> "none"]
    /\ devices = RegisteredDevices
    /\ device_api_keys = PrimaryApiKeys
    /\ sessions = [w \in Workers |-> Idle]
    /\ files = {}
    /\ handles = {}
    /\ users = {DeviceOwner}
    /\ registration_codes = {}

Next ==
    \/ \E d \in Devices, b \in SmallBatches :
          get_device_from_api_key(PrimaryKey(d), d) /\ upload_events(d, b)
    \/ \E d \in Devices, id \in EventIds :
          /\ get_device_from_api_key(PrimaryKey(d), d)
          /\ request_photo_upload_url(d, id)
          /\ UNCHANGED handles
    \/ \E d \in Devices, id \in EventIds :
          \E k \in KeyInputs(id) :
             get_device_from_api_key(PrimaryKey(d), d) /\ confirm_photo_upload(d, id, k)
    \/ \E d \in Devices :
          get_device_from_api_key(PrimaryKey(d), d) /\ device_heartbeat(d)

Spec == Init /\ [][Next]_vars

\* The photo protocol over the months: handles are requested and confirmed
\* while the clock advances.
NextClock ==
    \/ \E d \in Devices :
          /\ get_device_from_api_key(PrimaryKey(d), d)
          /\ upload_events(d, <<MkEvent(0, 30000)>>)
    \/ \E d \in Devices, id \in EventIds :
          /\ get_device_from_api_key(PrimaryKey(d), d)
          /\ request_photo_upload_url(d, id)
          /\ UNCHANGED handles
    \/ \E d \in Devices, id \in EventIds :
          /\ get_device_from_api_key(PrimaryKey(d), d)
          /\ confirm_photo_upload(d, id, generate_photo_key(d, id, "jpg"))
    \/ Tick

SpecClock == Init /\ [][NextClock]_vars

\* The photo protocol with its storage: devA's events, with and without a
\* photo, are ingested, handles are requested and kept, objects are put in
\* the storage, both devices send confirmations under every key, next to
\* heartbeats and listings.
PhotoBatches == {<<MkEvent(0, 30000)>>, <<MkEvent(10, 30000)>>}

NextPhotos ==
    \/ \E b \in PhotoBatches :
          get_device_from_api_key(PrimaryKey("devA"), "devA") /\ upload_events("devA", b)
    \/ \E d \in Devices, id \in EventIds :
          /\ get_device_from_api_key(PrimaryKey(d), d)
          /\ request_photo_upload_url(d, id)
          /\ handle_kept
    \/ upload_file(generate_photo_key("devA", 1, "jpg"))
    \/ \E k \in handles : put_object(k)
    \/ \E d \in Devices, id \in EventIds :
          \E k \in KeyInputs(id) :
             get_device_from_api_key(PrimaryKey(d), d) /\ confirm_photo_upload(d, id, k)
    \/ get_device_from_api_key(PrimaryKey("devA"), "devA") /\ device_heartbeat("devA")
    \/ /\ get_device_from_api_key(PrimaryKey("devA"), "devA")
       /\ get_device_events("devA", 100, 0, FALSE)

SpecPhotos == Init /\ [][NextPhotos]_vars

\* Accounts: an installation without users and without devices.  Codes are
\* created, used, deactivated and expire; users register through the page
\* and through the API, administrators change admin status and delete
\* users.
MaxUses == 2         \* the largest max_uses of a registration code

UserIds == {"u1", "u2"}

Emails == {"a@example.com", "b@example.com"}

\* The password and its confirmation.
PasswordPairs ==
    {<<"password123", "password123">>, <<"password123", "password124">>,
     <<"short", "short">>}

CodeInputs == {"TEST2024", "WRONG"}

InitUsers ==
    /\ speed_events = {}
    /\ next_event_id = 1
    /\ last_sync = [d \in Devices |-> None]
    /\ now = 0
    /\ storage_provider = "s3"
    /\ response = [op |-> "none"]
    /\ devices = {}
    /\ device_api_keys = {}
    /\ sessions = [w \in Workers |-> Idle]
    /\ files = {}
    /\ handles = {}
    /\ users = {}
    /\ registration_codes = {}

NextUsers ==
    \/ \E id \in UserIds, e \in Emails, a \in BOOLEAN : create_user(id, e, a)
    \/ \E n \in 0..MaxUses, x \in {None, Some(1)} :
          create_registration_code("TEST2024", n, x)
    \/ deactivate_registration_code("TEST2024")
    \/ \E c \in CodeInputs : validate_and_use_registration_code(c)
    \/ \E id \in UserIds, e \in Emails, pw \in PasswordPairs, c \in CodeInputs :
          register(id, e, pw[1], pw[2], c)
    \/ \E id \in UserIds, e \in Emails, pw \in PasswordPairs, c \in CodeInputs :
          register_user(id, e, pw[1], c)
    \/ \E a \in UserIds, u \in UserIds, b \in BOOLEAN :
          set_user_admin_status(a, u, b)
    \/ \E a \in UserIds, u \in UserIds : delete_user(a, u)
    \/ \E a \in UserIds, u \in UserIds, b \in BOOLEAN :
          admin_toggle_admin_status(a, u, b)
    \/ \E a \in UserIds, u \in UserIds : admin_delete_user(a, u)
    \/ Tick

SpecUsers == InitUsers /\ [][NextUsers]_vars

---------------------------------------------------------------------------
(* Claims about ingestion and duplicate detection (SpecIngest) *)

Abs(n) == IF n < 0 THEN -n ELSE n

\* The rows of a device.
EventsOf(rows, d) == {e \in rows : e.device_id = d}

\* This step is a successful ingestion call (the request is in response').
IngestStep ==
    /\ response'.op = "upload_events"
    /\ response'.status_code = 200
    /\ upload_events(response'.device, response'.events)

\* C1 (as claimed): when a device ingests a batch and then ingests the
\* identical batch again, the second call creates no event, reports
\* duplicates_skipped equal to the batch size and leaves the stored events
\* unchanged.
C1_IdempotentResubmission ==
    [][(/\ response.op = "upload_events"
        /\ response.status_code = 200
        /\ upload_events(response.device, response.events))
       => (/\ response'.processed = 0
           /\ response'.duplicates_skipped = Len(response.events)
           /\ speed_events' = speed_events)]_vars

BatchC2 == <<MkEvent(0, 30000), MkEvent(2, 30000), MkEvent(10, 30000)>>

\* C2: a device with no stored events that ingests
\* [(T, 30), (T+2s, 30), (T+10s, 30)] gets processed = 2 and
\* duplicates_skipped = 1: the second event collapses into the first one of
\* the same batch, the third is stored.
C2_ExampleScenario ==
    [][\A d \in Devices :
          (/\ EventsOf(speed_events, d) = {}
           /\ response'.op = "upload_events"
           /\ response'.events = BatchC2
           /\ upload_events(d, BatchC2))
          => (/\ response'.processed = 2
              /\ response'.duplicates_skipped = 1
              /\ {e.timestamp : e \in EventsOf(speed_events', d)} = {0, 10}
              /\ Len(response'.created_events) = 2
              /\ response'.created_events[1].timestamp = 0
              /\ response'.created_events[2].timestamp = 10)]_vars

C2_Witness ==
    /\ response.op = "upload_events"
    /\ response.status_code = 200
    /\ response.events = BatchC2
    /\ response.processed = 2
    /\ response.duplicates_skipped = 1

\* Two identical events in one batch, from a device with no matching
\* stored event.
TwinStep(d, e) ==
    /\ response'.op = "upload_events"
    /\ response'.device = d
    /\ response'.events = <<e, e>>
    /\ ~\E s \in EventsOf(speed_events, d) :
           /\ s.speed = e.speed
           /\ Abs(s.timestamp - e.timestamp) <= 5
    /\ upload_events(d, <<e, e>>)

\* C3 (as claimed): two identical events in one batch from a device with no
\* matching stored event are both created: processed = 2 and
\* duplicates_skipped = 0.
C3_NoWithinBatchDedup ==
    [][\A d \in Devices, e \in EventInputs :
          TwinStep(d, e)
          => (response'.processed = 2 /\ response'.duplicates_skipped = 0)]_vars

\* C3 (amended): every event of a batch is checked against the rows its
\* session sees, the rows flushed earlier in the same call included.  Of two
\* identical events the first is created; the second is skipped when the
\* stored first row carries the submitted speed (a speed with at most two
\* decimals), and created when the speed was rounded on storage.
C3_WithinBatchDedup ==
    [][\A d \in Devices, e \in EventInputs :
          TwinStep(d, e)
          => IF e.speed % 10 = 0
             THEN response'.processed = 1 /\ response'.duplicates_skipped = 1
             ELSE response'.processed = 2 /\ response'.duplicates_skipped = 0]_vars

C3_Witness ==
    /\ response.op = "upload_events"
    /\ response.status_code = 200
    /\ response.events = <<MkEvent(2, 30000), MkEvent(2, 30000)>>
    /\ response.processed = 1
    /\ response.duplicates_skipped = 1

\* C4: an event is a duplicate if and only if a stored event of the same
\* device has exactly the same speed and a timestamp at most 5 s away, both
\* boundaries included; other devices' events and events of another speed
\* never count.
C4_IsDuplicate ==
    [][\A d \in Devices, e \in EventInputs :
          (/\ response'.op = "upload_events"
           /\ response'.device = d
           /\ response'.events = <<e>>
           /\ upload_events(d, <<e>>))
          => (response'.duplicates_skipped = 1
              <=> \E s \in speed_events :
                     /\ s.device_id = d
                     /\ s.speed = e.speed
                     /\ Abs(s.timestamp - e.timestamp) <= 5)]_vars

\* A single event was skipped whose only matches lie exactly 5 s away, while
\* another device holds an event at the very same timestamp.
C4_Witness ==
    /\ response.op = "upload_events"
    /\ response.status_code = 200
    /\ Len(response.events) = 1
    /\ response.duplicates_skipped = 1
    /\ \A s \in EventsOf(speed_events, response.device) :
           s.speed = response.events[1].speed
           => Abs(s.timestamp - response.events[1].timestamp) >= 5
    /\ \E s \in speed_events :
           /\ s.device_id # response.device
           /\ s.timestamp = response.events[1].timestamp

\* C14: the created_events list of an ingestion response is the
\* subsequence of the input batch made of its non-duplicate events (those
\* matching neither a stored event of the device nor an event created
\* earlier in the call), in input order, and every summary carries the
\* timestamp, the speed and the has_photo flag of the input event it stands
\* for.
C14_CreatedEventsOrder ==
    [][IngestStep
       => LET d == response'.device
              evs == response'.events
              ce == response'.created_events
          IN  \E N \in SUBSET (1..Len(evs)) :
                 /\ Len(ce) = Cardinality(N)
                 /\ \A i \in 1..Len(evs) :
                       i \in N <=>
                          /\ ~\E s \in speed_events :
                                 /\ s.device_id = d
                                 /\ s.speed = evs[i].speed
                                 /\ Abs(s.timestamp - evs[i].timestamp) <= 5
                          /\ ~\E j \in N :
                                 /\ j < i
                                 /\ Numeric_5_2(evs[j].speed) = evs[i].speed
                                 /\ Abs(evs[j].timestamp - evs[i].timestamp) <= 5
                 /\ \E f \in [1..Len(ce) -> N] :
                       /\ \A a, b \in 1..Len(ce) : a < b => f[a] < f[b]
                       /\ \A a \in 1..Len(ce) :
                             /\ ce[a].timestamp = evs[f[a]].timestamp
                             /\ ce[a].speed = evs[f[a]].speed
                             /\ ce[a].has_photo = evs[f[a]].has_photo]_vars

\* The second event of a batch was skipped and the third, with a photo,
\* created: the second summary carries the third event's flag.
C14_Witness ==
    /\ response.op = "upload_events"
    /\ response.status_code = 200
    /\ response.events = <<MkEvent(2, 30000), MkEvent(7, 30000), MkEvent(0, 30125)>>
    /\ response.duplicates_skipped = 1
    /\ Len(response.created_events) = 2
    /\ ~response.created_events[1].has_photo
    /\ response.created_events[2].has_photo
    /\ response.created_events[2].timestamp = 0

\* C25: in the response of a successful ingestion call, processed plus
\* duplicates_skipped is the number of events of the request, and processed
\* is the length of created_events and the number of rows the call added,
\* all of them rows of the calling device.
C25_Counts ==
    [][IngestStep =>
          LET added == speed_events' \ speed_events IN
          /\ response'.processed + response'.duplicates_skipped
                = Len(response'.events)
          /\ response'.processed = Len(response'.created_events)
          /\ response'.processed = Cardinality(added)
          /\ \A e \in added : e.device_id = response'.device
          /\ speed_events \subseteq speed_events']_vars

\* C25 witness: a call with two events created one and skipped the other,
\* in a store that held a row already.
C25_Witness ==
    /\ response.op = "upload_events"
    /\ response.status_code = 200
    /\ Len(response.events) = 2
    /\ response.processed = 1
    /\ response.duplicates_skipped = 1
    /\ Cardinality(speed_events) >= 2

\* C26: when ingestion calls do not overlap, no two stored events of one
\* device have equal speed and timestamps within tolerance_seconds of each
\* other.
C26_NoStoredDuplicates ==
    \A e1 \in speed_events, e2 \in speed_events :
        (/\ e1.id # e2.id
         /\ e1.device_id = e2.device_id
         /\ e1.speed = e2.speed)
        => Abs(e1.timestamp - e2.timestamp) > tolerance_seconds

---------------------------------------------------------------------------
(* Claims about isolation between devices *)

\* This step is a handle request (the request is in response').
RequestUrlStep ==
    /\ response'.op = "request_photo_upload_url"
    /\ request_photo_upload_url(response'.device, response'.event_id)

\* This step is a confirmation (the request is in response').
ConfirmStep ==
    /\ response'.op = "confirm_photo_upload"
    /\ confirm_photo_upload(response'.device, response'.event_id,
                            response'.photo_key)

\* This step is an event listing (the request is in response').
ListStep ==
    /\ response'.op = "get_device_events"
    /\ \E q \in ListQueries :
          /\ q.speeding_only = response'.speeding_only
          /\ get_device_events(response'.device, q.limit, q.offset,
                               q.speeding_only)

\* The event the request names exists and belongs to another device.
ForeignTarget ==
    \E e \in speed_events :
        e.id = response'.event_id /\ e.device_id # response'.device

\* C5: a handle request or a confirmation made with device B's credential
\* on an event owned by device A is answered Forbidden and leaves the
\* event's photo reference and every other stored field unchanged.
C5_IsolationMutation ==
    [][((RequestUrlStep \/ ConfirmStep) /\ ForeignTarget)
       => (response'.status_code = 403 /\ speed_events' = speed_events)]_vars

\* A confirmation was refused on a foreign event, under a key that carries
\* the owner's prefix.
C5_Witness ==
    /\ response.op = "confirm_photo_upload"
    /\ response.status_code = 403
    /\ \E e \in speed_events :
          /\ e.id = response.event_id
          /\ e.device_id # response.device
          /\ response.photo_key # << >>
          /\ response.photo_key[2] = e.device_id

\* C6: what a device observes does not depend on the other devices'
\* events: its listing holds only events it owns, and the counts its
\* ingestion returns are those the same call returns when the other
\* devices' events are taken out of the store.
C6_IsolationVisibility ==
    [][/\ ListStep
          => \A i \in 1..Len(response'.events) :
                \E e \in EventsOf(speed_events, response'.device) :
                    e.id = response'.events[i].id
       /\ IngestStep
          => LET d == response'.device
                 own == RunBatch(EventsOf(speed_events, d), next_event_id,
                                 d, response'.events)
             IN  /\ response'.processed = own.created_count
                 /\ response'.duplicates_skipped = own.skipped_count]_vars

\* A device created an event that another device already holds.
C6_Witness ==
    /\ response.op = "upload_events"
    /\ response.status_code = 200
    /\ response.processed >= 1
    /\ \E e \in speed_events :
          /\ e.device_id # response.device
          /\ e.timestamp = response.created_events[1].timestamp
          /\ e.speed = response.created_events[1].speed
          /\ e.id < response.created_events[1].event_id

---------------------------------------------------------------------------
(* Claims about the photo protocol (Spec) *)

\* C7: an event whose photo reference is set keeps a photo reference
\* through every later ingestion, handle request, confirmation (whatever
\* the key) and heartbeat.
C7_PhotoNeverCleared ==
    [][\A e \in speed_events :
          e.photo_url # None
          => \E f \in speed_events' : f.id = e.id /\ f.photo_url # None]_vars

\* An event with a photo reference was confirmed again with the empty key.
C7_Witness ==
    /\ response.op = "confirm_photo_upload"
    /\ response.status_code = 200
    /\ response.photo_key = << >>
    /\ \E e \in speed_events :
          e.id = response.event_id /\ e.photo_url # None

\* s ends with the pieces of k.
EndsWith(s, k) ==
    /\ Len(s) >= Len(k)
    /\ SubSeq(s, Len(s) - Len(k) + 1, Len(s)) = k

\* The permanent URL of key k under the configured storage service.
PermanentUrl(k) ==
    IF storage_provider = "local" THEN <<"/api/storage/files/">> \o k
    ELSE <<"https://rushroster-photos.s3.us-east-1.amazonaws.com/">> \o k

\* C8: after a confirmation with key k succeeds on an owned event, the
\* event's photo reference is the storage service's permanent URL of k, and
\* so contains k, whatever the reference was before; a confirmation with k2
\* after one with k1 leaves the URL of k2.
C8_LastWriteWins ==
    [][(ConfirmStep /\ response'.status_code = 200)
       => \A e \in speed_events' :
             e.id = response'.event_id
             => /\ e.photo_url = Some(PermanentUrl(response'.photo_key))
                /\ EndsWith(e.photo_url[1], response'.photo_key)
                /\ response'.photo_url = e.photo_url[1]]_vars

\* The last two requests were confirmations of the same event with
\* different keys, and the event holds the URL of the second one.
C8_Witness ==
    /\ response.op = "confirm_photo_upload"
    /\ response.status_code = 200
    /\ response.photo_key # << >>
    /\ response.photo_key[2] # response.device
    /\ \E e \in speed_events :
          /\ e.id = response.event_id
          /\ e.photo_url = Some(response.photo_url)

\* C9: a handle request of device d for its event E, before or after a
\* confirmation, succeeds and returns the key
\* photos/{d}/{year}/{month}/{E}.jpg with the year and month of the clock at
\* issuance (so two requests in the same month return the same key, and the
\* event's own date plays no part), and changes no stored event.
C9_KeyDeterminism ==
    [][(/\ RequestUrlStep
        /\ \E e \in speed_events :
               e.id = response'.event_id /\ e.device_id = response'.device)
       => /\ response'.status_code = 200
          /\ response'.photo_key =
                <<"photos", response'.device,
                  2025 + ((11 + now) \div 12), ((11 + now) % 12) + 1,
                  response'.event_id, "jpg">>
          /\ speed_events' = speed_events]_vars

\* A handle issued in January 2026 for an event observed (and already
\* confirmed) in December 2025.
C9_Witness ==
    /\ response.op = "request_photo_upload_url"
    /\ response.status_code = 200
    /\ now = 1
    /\ response.photo_key[3] = 2026
    /\ response.photo_key[4] = 1
    /\ \E e \in speed_events :
          e.id = response.event_id /\ e.photo_url # None

\* C10: a handle request or a confirmation is answered NotFound when the
\* event does not exist (and then nothing stored changes), Forbidden when
\* the event exists and belongs to another device, and succeeds when the
\* event exists and belongs to the caller.
C10_StatusByTarget ==
    [][(RequestUrlStep \/ ConfirmStep)
       => LET target == {e \in speed_events : e.id = response'.event_id} IN
          /\ target = {}
             => /\ response'.status_code = 404
                /\ UNCHANGED <<speed_events, next_event_id, last_sync>>
          /\ (target # {} /\ \A e \in target : e.device_id # response'.device)
             => response'.status_code = 403
          /\ (target # {} /\ \A e \in target : e.device_id = response'.device)
             => response'.status_code = 200]_vars

\* A confirmation on an id no event carries was answered NotFound while the
\* store holds events of both devices.
C10_Witness ==
    /\ response.op = "confirm_photo_upload"
    /\ response.status_code = 404
    /\ \A d \in Devices : EventsOf(speed_events, d) # {}

---------------------------------------------------------------------------
(* Claims about request validation (SpecValidation) *)

\* This step is an ingestion request that got past authentication (the
\* request is in response').
UploadRequestStep ==
    /\ response'.op = "upload_events"
    /\ IF response'.status_code = 200
       THEN upload_events(response'.device, response'.events)
       ELSE upload_events_rejected(response'.device, response'.events)

WellFormed(events) ==
    \A i \in 1..Len(events) : events[i].speed > 0 /\ events[i].speed_limit > 0

\* C11: an ingestion request with no event is rejected, one with 1000
\* well-formed events is accepted, one with 1001 events is rejected, and a
\* rejected request stores no event.
C11_BatchBounds ==
    [][UploadRequestStep
       => LET n == Len(response'.events) IN
          /\ n = 0 => response'.status_code = 422
          /\ (n = 1000 /\ WellFormed(response'.events))
             => response'.status_code = 200
          /\ n = 1001 => response'.status_code = 422
          /\ response'.status_code = 422
             => speed_events' = speed_events /\ next_event_id' = next_event_id]_vars

\* A batch of 1000 events was accepted: its first event was created, the
\* 999 others were duplicates of it.
C11_Witness ==
    /\ response.op = "upload_events"
    /\ response.status_code = 200
    /\ Len(response.events) = 1000
    /\ response.processed = 1
    /\ response.duplicates_skipped = 999

\* This step is the rejection of a batch with a malformed event.
MalformedStep ==
    /\ response'.op = "upload_events"
    /\ response'.status_code = 422
    /\ ~WellFormed(response'.events)
    /\ upload_events_rejected(response'.device, response'.events)

\* C12 (as claimed): a batch with a malformed event is rejected as a whole:
\* none of its events is stored, and the request writes no other stored
\* state.
C12_NoWriteOnMalformed ==
    [][MalformedStep
       => UNCHANGED <<speed_events, next_event_id, last_sync, devices,
                      device_api_keys>>]_vars

\* C12 (amended): a batch with a malformed event is rejected as a whole:
\* none of its events is stored, the well-formed ones included, and the
\* device and its last-sync are not written; the only stored state the
\* request writes is the last-used time of the credential it presented,
\* which authentication sets before the body is validated.
C12_MalformedRejected ==
    [][MalformedStep
       => /\ UNCHANGED <<speed_events, next_event_id, last_sync, devices>>
          /\ \E c \in device_api_keys :
                /\ c.device_id = response'.device
                /\ device_api_keys' =
                      (device_api_keys \ {c})
                      \cup {[c EXCEPT !.last_used = <<now>>]}]_vars

\* A batch of a well-formed and a malformed event was rejected, as the
\* device's first request: nothing is stored, the device never synced, and
\* its credential has been used.
C12_Witness ==
    /\ response.op = "upload_events"
    /\ response.status_code = 422
    /\ Len(response.events) = 2
    /\ speed_events = {}
    /\ last_sync[response.device] = << >>
    /\ \E c \in device_api_keys :
          c.device_id = response.device /\ c.last_used # << >>

---------------------------------------------------------------------------
(* Claims about credentials, last-sync and heartbeat (SpecAuth) *)

\* The dependency of this step's request resolved a credential to device d
\* (and set the credential's last-used time).
Authenticated(d) == \E k \in AuthKeys : get_device_from_api_key(k, d)

\* C13: every successful ingestion call sets the calling device's
\* last-sync to the time of the call, whatever the number of duplicates,
\* also when every event of the batch was a duplicate, and changes no other
\* device's last-sync.
C13_LastSyncEveryCall ==
    [][(IngestStep /\ Authenticated(response'.device))
       => /\ last_sync'[response'.device] = <<now>>
          /\ \A d \in Devices \ {response'.device} :
                last_sync'[d] = last_sync[d]]_vars

\* A call whose only event was a duplicate has moved the device's last-sync
\* to the second month, while the other device's last-sync stayed in the
\* first.
C13_Witness ==
    /\ response.op = "upload_events"
    /\ response.status_code = 200
    /\ response.processed = 0
    /\ response.duplicates_skipped = Len(response.events)
    /\ now = 1
    /\ last_sync[response.device] = <<1>>
    /\ \E d \in Devices : last_sync[d] = <<0>>

\* This step is an answer of the authentication dependency (the request is
\* in response').
AuthAnswerStep ==
    /\ response'.op = "get_device_from_api_key"
    /\ response' # response

\* C16 (as claimed): every authentication failure gets the same response,
\* status and detail, whether the credential's format was wrong, the
\* credential expired or deactivated, or simply unknown.
C16_Undifferentiated ==
    [][(/\ response.op = "get_device_from_api_key"
        /\ response.status_code = 401
        /\ AuthAnswerStep
        /\ response'.status_code = 401)
       => response'.detail = response.detail]_vars

\* The credential k is active, unexpired, and its device is active.
Usable(k) ==
    \E c \in device_api_keys :
        /\ c.api_key_hash = hash_api_key(k)
        /\ c.is_active
        /\ (c.expires_at = << >> \/ c.expires_at[1] > now)
        /\ \E d \in devices : d.id = c.device_id /\ d.is_active

\* C17: a credential authenticates only while it is active, unexpired and
\* its device is active: once it is deactivated or expired, or its device
\* deactivated or deleted, no request carrying it reaches a handler, and
\* the request is answered 401 without any write; every other credential
\* of a device that is still usable resolves to that device.
C17_UsableOnlyWhile ==
    [][\A k \in AuthKeys :
          /\ ~Usable(k)
             => /\ \A d \in Devices : ~get_device_from_api_key(k, d)
                /\ (AuthAnswerStep /\ response'.x_api_key = k)
                   => /\ response'.status_code = 401
                      /\ UNCHANGED <<speed_events, next_event_id, last_sync,
                                     devices, device_api_keys>>
          /\ Usable(k)
             => \E c \in device_api_keys :
                   /\ c.api_key_hash = hash_api_key(k)
                   /\ get_device_by_api_key_hash(hash_api_key(k)) = {c.device_id}]_vars

\* The second credential of devA, used before, is refused after its expiry
\* while the primary credential of devA has just been used.
C17_Witness ==
    /\ response.op = "get_device_from_api_key"
    /\ response.status_code = 401
    /\ response.x_api_key = SecondKey
    /\ now >= 1
    /\ \E c \in device_api_keys :
          /\ c.api_key_hash = hash_api_key(SecondKey)
          /\ c.is_active
          /\ c.expires_at = <<1>>
          /\ c.last_used = <<0>>
    /\ \E c \in device_api_keys :
          /\ c.api_key_hash = hash_api_key(PrimaryKey("devA"))
          /\ c.last_used = <<now>>

\* C18 (as claimed): the update of the credential's last-used time is
\* best effort: a request presenting a usable credential is never answered
\* by the authentication dependency, it reaches its handler also when the
\* update fails.
C18_BestEffortLastUsed ==
    [][AuthAnswerStep => ~Usable(response'.x_api_key)]_vars

\* This step is a heartbeat (the request is in response').
HeartbeatStep ==
    /\ response'.op = "device_heartbeat"
    /\ Authenticated(response'.device)
    /\ device_heartbeat(response'.device)

\* C19: a heartbeat sets the calling device's last-sync and, besides the
\* last-used time of the credential presented, nothing else: the stored
\* events and their photo references, the devices and every other device's
\* last-sync are unchanged.
C19_HeartbeatFrame ==
    [][HeartbeatStep
       => /\ last_sync' = [last_sync EXCEPT ![response'.device] = <<now>>]
          /\ UNCHANGED <<speed_events, next_event_id, devices>>
          /\ \E c \in device_api_keys :
                /\ c.device_id = response'.device
                /\ device_api_keys' =
                      (device_api_keys \ {c})
                      \cup {[c EXCEPT !.last_used = <<now>>]}]_vars

\* A heartbeat in the second month, with a confirmed photo in the store and
\* another device that synced in the first month.
C19_Witness ==
    /\ response.op = "device_heartbeat"
    /\ now = 1
    /\ last_sync[response.device] = <<1>>
    /\ \E d \in Devices : last_sync[d] = <<0>>
    /\ \E e \in speed_events : e.photo_url # << >>

\* This step deletes a device that exists (the request is in response').
DeleteDeviceStep ==
    /\ response'.op = "delete_device"
    /\ \E d \in devices : d.id = response'.device
    /\ delete_device(response'.device)

\* C23: a successful device deletion leaves no event and no credential of
\* the device, leaves the events and the credentials of the other devices
\* as they were, and no header value authenticates as a device that is not
\* in the devices table, whose credentials stay absent.
C23_DeleteCascades ==
    [][/\ DeleteDeviceStep =>
             LET d == response'.device IN
             /\ response'.status_code = 204
             /\ ~\E e \in speed_events' : e.device_id = d
             /\ ~\E k \in device_api_keys' : k.device_id = d
             /\ \A k \in AuthKeys : get_device_by_api_key_hash(hash_api_key(k))' # {d}
             /\ {e \in speed_events' : e.device_id # d}
                   = {e \in speed_events : e.device_id # d}
             /\ {k \in device_api_keys' : k.device_id # d}
                   = {k \in device_api_keys : k.device_id # d}
       /\ \A d \in Devices :
             (~\E r \in devices : r.id = d) =>
                 /\ \A k \in AuthKeys : ~get_device_from_api_key(k, d)
                 /\ ~\E k \in device_api_keys' : k.device_id = d
                 /\ ~\E e \in speed_events' : e.device_id = d
      ]_vars

\* C23 witness: devB was deleted after both devices had stored an event
\* and used their credentials; devA's event and credential are there.
C23_Witness ==
    /\ response.op = "delete_device"
    /\ response.status_code = 204
    /\ next_event_id = 3
    /\ \E e \in speed_events : e.device_id = "devA"
    /\ ~\E e \in speed_events : e.device_id = "devB"
    /\ ~\E k \in device_api_keys : k.device_id = "devB"
    /\ \E k \in device_api_keys : k.device_id = "devA" /\ k.last_used # None

---------------------------------------------------------------------------
(* Claims about concurrent ingestion calls (SpecSessions) *)

\* The ids of the rows a session has flushed and not committed.
PendingIds(w) ==
    IF sessions[w].pc = "idle" THEN {} ELSE {p.id : p \in sessions[w].pending}

\* The ids of the events the last response lists.
ListedIds(r) == {r.events[i].id : i \in 1..Len(r.events)}

\* Process w's call ends in its loop, before the commit of its events.
FailsBeforeCommit(w) ==
    /\ sessions[w].pc = "loop"
    /\ sessions'[w].pc = "idle"

\* C15: the events of one upload_events call become visible together.  The
\* committed table changes only by the commit after a call's loop, which
\* adds every row the call flushed, that is every event the call reports
\* as created; a call that fails before that commit leaves the table as
\* it was; and the listing another request gets contains no row that a
\* call has flushed and not committed.
C15_SingleUnit ==
    [][/\ speed_events' # speed_events =>
             \E w \in Workers :
                 /\ sessions[w].pc = "loop"
                 /\ sessions[w].i > Len(sessions[w].events)
                 /\ speed_events' = speed_events \cup sessions[w].pending
                 /\ PendingIds(w) =
                       {sessions[w].created_events[i].event_id :
                           i \in 1..Len(sessions[w].created_events)}
       /\ \A w \in Workers :
             FailsBeforeCommit(w) =>
                 /\ speed_events' = speed_events
                 /\ sessions[w].pending \cap speed_events' = {}
       /\ (response'.op = "get_device_events" /\ response'.status_code = 200) =>
             \A w \in Workers : ListedIds(response') \cap PendingIds(w) = {}
      ]_vars

\* C15 witness: a call that had flushed its two events failed, and no row
\* is stored.
C15_Witness ==
    /\ response.op = "upload_events"
    /\ response.status_code = 500
    /\ Len(response.events) = 2
    /\ next_event_id = 3
    /\ speed_events = {}
    /\ \A w \in Workers : sessions[w] = Idle

\* Process w commits the events of its call.
CommitStep(w) ==
    /\ sessions[w].pc = "loop"
    /\ sessions'[w].pc = "last_sync"

\* Process w runs one iteration of its loop.
LoopStep(w) ==
    /\ sessions[w].pc = "loop"
    /\ sessions'[w].pc = "loop"
    /\ sessions'[w].i = sessions[w].i + 1

\* C20: nothing keeps two concurrent calls from storing the same event.
\* The duplicate check of a call looks at the committed rows and at the
\* call's own flushed rows only, so a row another call has flushed and not
\* committed does not make the event a duplicate; and the commit stores
\* every flushed row, whatever was committed in the meantime.
C20_ConcurrentRace ==
    [][\A w \in Workers :
          /\ LoopStep(w) =>
                LET ses == sessions[w]
                    ev == ses.events[ses.i]
                IN  (sessions'[w].pending # ses.pending)
                        <=> ~check_duplicate_event(
                                speed_events \cup ses.pending, ses.device,
                                ev.timestamp, ev.speed)
          /\ CommitStep(w) => sessions[w].pending \subseteq speed_events'
      ]_vars

\* C20 witness: two stored rows of one device with the same timestamp and
\* the same speed, once both calls are over.
C20_Witness ==
    /\ \A w \in Workers : sessions[w] = Idle
    /\ \E e1 \in speed_events, e2 \in speed_events :
          /\ e1.id # e2.id
          /\ e1.device_id = e2.device_id
          /\ e1.timestamp = e2.timestamp
          /\ e1.speed = e2.speed

---------------------------------------------------------------------------
(* Claims about the photo protocol and its storage (SpecPhotos) *)

\* The confirmation of this step names an existing event of the caller.
OwnedTarget ==
    \E e \in speed_events :
        e.id = response'.event_id /\ e.device_id = response'.device

\* The photo reference of the event of this step's confirmation is the
\* storage service's URL of the key of the request.
ReferenceSet ==
    \A e \in speed_events' :
        e.id = response'.event_id =>
            e.photo_url = Some(get_storage_url(response'.photo_key))

\* C21: a confirmation on an existing event of the caller succeeds and sets
\* the photo reference whether or not a handle was requested for the event
\* and whether or not an object is stored under the key; it reads and
\* writes neither the storage nor the handles.
C21_ConfirmIndependent ==
    [][(ConfirmStep /\ OwnedTarget)
       => /\ response'.status_code = 200
          /\ ReferenceSet
          /\ files' = files
          /\ handles' = handles]_vars

\* C21 witness: a confirmation succeeded and the event has a photo
\* reference, while no handle was ever handed out and the storage holds no
\* object.
C21_Witness ==
    /\ response.op = "confirm_photo_upload"
    /\ response.status_code = 200
    /\ handles = {}
    /\ files = {}
    /\ \E e \in speed_events : e.id = response.event_id /\ e.photo_url # None

\* The rows whose photo reference this step sets or changes.
PhotoChanged ==
    {e \in speed_events' :
        \E o \in speed_events : o.id = e.id /\ o.photo_url # e.photo_url}

\* C27: a row enters speed_events without a photo reference, whatever the
\* has_photo flag of its event, and the photo reference of a stored event
\* changes only in a successful confirmation for that event, sent under a
\* credential of the device that owns it.
C27_PhotoOnlyByConfirm ==
    [][/\ \A e \in speed_events' :
             (~\E o \in speed_events : o.id = e.id) => e.photo_url = None
       /\ \A e \in PhotoChanged :
             /\ ConfirmStep
             /\ response'.status_code = 200
             /\ response'.event_id = e.id
             /\ response'.device = e.device_id
             /\ get_device_from_api_key(PrimaryKey(e.device_id), e.device_id)
      ]_vars

\* C27 witness: an event sent with has_photo was just created without a
\* photo reference, next to an event whose reference a confirmation set.
C27_Witness ==
    /\ response.op = "upload_events"
    /\ response.status_code = 200
    /\ Len(response.created_events) = 1
    /\ response.created_events[1].has_photo
    /\ \E e \in speed_events :
          e.id = response.created_events[1].event_id /\ e.photo_url = None
    /\ \E e \in speed_events : e.photo_url # None

\* The key of this step's confirmation is not the key of a handle a device
\* holds, or it does not lie under the caller's prefix.
UnboundKey ==
    \/ response'.photo_key \notin handles
    \/ response'.photo_key = << >>
    \/ response'.photo_key[2] # response'.device

\* C28: the owner's confirmation succeeds under a key no handle carries and
\* under a key of another device's prefix, and the photo reference becomes
\* the URL of that key.
C28_KeyNotBound ==
    [][(ConfirmStep /\ OwnedTarget /\ UnboundKey)
       => (response'.status_code = 200 /\ ReferenceSet)]_vars

\* C28 witness: devA's event refers to the URL of a key under devB's
\* prefix, a key no handle carries.
C28_Witness ==
    \E e \in speed_events :
        LET k == generate_photo_key("devB", e.id, "jpg") IN
        /\ e.device_id = "devA"
        /\ e.photo_url = Some(get_storage_url(k))
        /\ k \notin handles
        /\ response.op = "confirm_photo_upload"
        /\ response.photo_key = k

---------------------------------------------------------------------------
(* Claims about users and registration codes (SpecUsers) *)

\* The rows this step adds to users (rows with an id no row had).
NewUsers == {u \in users' : ~\E o \in users : o.id = u.id}

\* The admin status this step's request asks for: the argument of a direct
\* create_user, nothing in the registration routes.
RequestedAdmin ==
    response'.op = "create_user" /\ response'.is_admin

\* C22: a user created while the users table is empty is an administrator
\* whether or not admin status was asked for; a user created while the
\* table holds a user is an administrator exactly if it was asked for.
C22_FirstUserRule ==
    [][\A u \in NewUsers :
          /\ response'.op \in {"create_user", "register", "register_user"}
          /\ users = {} => u.is_admin
          /\ users # {} => (u.is_admin <=> RequestedAdmin)]_vars

\* C22 witness: the only user was created by create_user without admin
\* status asked for, and is an administrator.
C22_Witness ==
    /\ response.op = "create_user"
    /\ ~response.is_admin
    /\ Cardinality(users) = 1
    /\ \E u \in users : u.id = response.user_id /\ u.is_admin

\* Code row c can be used now: active, unexpired, uses left.
CodeValid(c) ==
    /\ c.is_active
    /\ c.expires_at = None \/ c.expires_at[1] > now
    /\ c.current_uses < c.max_uses

\* This step is a direct validate-and-use (the request is in response').
UseStep ==
    /\ response'.op = "validate_and_use_registration_code"
    /\ validate_and_use_registration_code(response'.code)

\* C24: validate-and-use succeeds exactly if a row of that code exists, is
\* active, unexpired and has current_uses < max_uses, and then adds one to
\* current_uses; otherwise it fails and leaves the codes as they were.  In
\* every step, whatever uses codes, a use count only grows by one, on a
\* row that could be used, and never exceeds max_uses.
C24_MaxUses ==
    [][/\ UseStep =>
             /\ response'.result
                   <=> \E c \in registration_codes :
                          c.code = response'.code /\ CodeValid(c)
             /\ ~response'.result => registration_codes' = registration_codes
             /\ response'.result =>
                   \E c \in registration_codes :
                       /\ c.code = response'.code
                       /\ registration_codes' =
                             (registration_codes \ {c}) \cup
                                {[c EXCEPT !.current_uses = c.current_uses + 1]}
       /\ \A c \in registration_codes, n \in registration_codes' :
             (n.code = c.code /\ n.current_uses # c.current_uses) =>
                 /\ CodeValid(c)
                 /\ n.current_uses = c.current_uses + 1
       /\ \A n \in registration_codes' : n.current_uses <= n.max_uses
      ]_vars

\* C24 witness: a use was refused on an active, unexpired code whose uses
\* are exhausted.
C24_Witness ==
    /\ response.op = "validate_and_use_registration_code"
    /\ ~response.result
    /\ \E c \in registration_codes :
          /\ c.code = response.code
          /\ c.is_active
          /\ c.expires_at = None
          /\ c.max_uses >= 1
          /\ c.current_uses = c.max_uses

\* This step is a registration that presents a usable code and is refused
\* (the request is in response').
RefusedWithCode ==
    /\ response'.op \in {"register", "register_user"}
    /\ response'.status_code \in {400, 422}
    /\ UsableCodes(response'.registration_code) # {}
    /\ \E id \in UserIds :
          \/ /\ response'.op = "register"
             /\ register(id, response'.email, response'.password,
                         response'.confirm_password, response'.registration_code)
          \/ /\ response'.op = "register_user"
             /\ register_user(id, response'.email, response'.password,
                              response'.registration_code)

\* This step adds one to current_uses of the code of the request.
CodeUsedOnce ==
    \E c \in UsableCodes(response'.registration_code) :
        registration_codes' =
           (registration_codes \ {c}) \cup
              {[c EXCEPT !.current_uses = c.current_uses + 1]}

\* C29 (as claimed): every registration that presents a usable code and
\* is then refused (passwords that differ, a short password, an email
\* already registered) creates no user and adds one to the code's
\* current_uses.
C29_UseBeforeChecks ==
    [][RefusedWithCode => (users' = users /\ CodeUsedOnce)]_vars

\* C29 (amended): such a registration creates no user; it adds one to the
\* code's current_uses when the handler refuses it (status 400: on the
\* page, passwords that differ, a short password, an email already
\* registered; in the API, an email already registered); a short password
\* sent to the API is refused by the request model (status 422) before the
\* handler runs, and the codes stay as they were.
C29_CodeUsedFirst ==
    [][RefusedWithCode =>
          /\ users' = users
          /\ response'.status_code = 400 => CodeUsedOnce
          /\ response'.status_code = 422 =>
                /\ response'.op = "register_user"
                /\ Len(response'.password) < 8
                /\ registration_codes' = registration_codes]_vars

\* C29 witness: the page's registration was refused for passwords that
\* differ, no user exists and the code has been used.
C29_Witness ==
    /\ response.op = "register"
    /\ response.status_code = 400
    /\ response.message = "Passwords do not match"
    /\ users = {}
    /\ \E c \in registration_codes :
          c.code = response.registration_code /\ c.current_uses >= 1

\* This step is an administrator's request to remove their own admin
\* status or to delete their own account (the request is in response').
SelfRequest ==
    /\ response'.op \in {"set_user_admin_status", "admin_toggle_admin_status",
                         "delete_user", "admin_delete_user"}
    /\ response' # response
    /\ response'.admin = response'.user_id
    /\ \E u \in users : u.id = response'.admin /\ u.is_admin
    /\ response'.op \in {"set_user_admin_status", "admin_toggle_admin_status"}
          => ~response'.is_admin

Admins(rows) == {u \in rows : u.is_admin}

\* C30: an administrator's request to remove their own admin status or to
\* delete their own account is refused and changes nothing stored; and a
\* step taken while an administrator exists leaves an administrator.
C30_AdminRemains ==
    [][/\ SelfRequest =>
             /\ response'.status_code = 400
             /\ users' = users
             /\ registration_codes' = registration_codes
             /\ devices' = devices
       /\ Admins(users) # {} => Admins(users') # {}]_vars

\* C30 witness: one of two administrators was refused the deletion of
\* their own account.
C30_Witness ==
    /\ response.op \in {"delete_user", "admin_delete_user"}
    /\ response.status_code = 400
    /\ response.admin = response.user_id
    /\ Cardinality(Admins(users)) = 2

===========================================================================
